---- MODULE Spec2Model ----
(***************************************************************************)
(* A model of the Simbody multibody kernel: the uniform-gravity force      *)
(* element (Force_Gravity.cpp), the per-node tree recursions of Ground and *)
(* Weld nodes and the joint-model operators (RigidBodyNode.cpp).           *)
(*                                                                         *)
(* Reals are modelled by integers.  Lengths, masses and force components   *)
(* are integers; angles are counted in quarter turns (1 = pi/2), so that   *)
(* every rotation used is an integer matrix and sin/cos/atan2 are exact.   *)
(* NaN is a distinguished value that every arithmetic operator propagates. *)
(***************************************************************************)
EXTENDS Integers, Sequences, FiniteSets, TLC

\* ------------------------------------------------------------------ bounds
\* Number of mobilized bodies of the matter subsystem, Ground included.
NumBodies == 2
\* Cap on the evaluation counter (the counter itself is unbounded).
MaxEvals == 2
\* Number of threads, each with a private State, in the concurrent runs.
NThreads == 2
\* Number of nodes of the tree, Ground included.
NumNodes == 3
\* Largest length of a generalized vector handed to the node operators.
MaxDof == 1

\* --------------------------------------------------------------- constants
\* matter.getNumParticles(): particles are not supported by the matter
\* subsystem (its force arrays are sized for zero particles).
NumParticles == 0
\* The IEEE not-a-number, as a value no computation of the model produces.
NaN == -1000000

\* Stage numbers (SimTK::Stage), in realization order.
StageEmpty == 0
StageTopology == 1
StageModel == 2
StageInstance == 3
StagePosition == 5
StageVelocity == 6
StageTime == 4
StageDynamics == 7
StageAcceleration == 8
StageReport == 9

\* ------------------------------------------------------------ real numbers
IsNaN(x) == x = NaN
Add(a, b) == IF IsNaN(a) \/ IsNaN(b) THEN NaN ELSE a + b
Sub(a, b) == IF IsNaN(a) \/ IsNaN(b) THEN NaN ELSE a - b
Mul(a, b) == IF IsNaN(a) \/ IsNaN(b) THEN NaN ELSE a * b
Neg(a) == IF IsNaN(a) THEN NaN ELSE 0 - a
Abs(a) == IF IsNaN(a) THEN NaN ELSE IF a < 0 THEN 0 - a ELSE a
\* Comparisons with NaN are false.
Ge0(a) == ~IsNaN(a) /\ a >= 0
Gt0(a) == ~IsNaN(a) /\ a > 0

\* Exact square root on perfect squares (the inputs of the model are chosen
\* so that every norm taken is an integer).
Sqrt(n) == IF IsNaN(n) THEN NaN ELSE CHOOSE r \in 0..n : r * r = n
\* Exact division; a zero divisor gives NaN (0/0) as in IEEE arithmetic on
\* the only such case the model reaches.
Div(a, b) ==
    IF IsNaN(a) \/ IsNaN(b) \/ b = 0 THEN NaN
    ELSE IF a >= 0 THEN a \div b ELSE 0 - ((0 - a) \div b)

\* ----------------------------------------------------------------- vectors
Vec3Zero == <<0, 0, 0>>
Vec3NaN == <<NaN, NaN, NaN>>
VAdd(a, b) == <<Add(a[1], b[1]), Add(a[2], b[2]), Add(a[3], b[3])>>
VSub(a, b) == <<Sub(a[1], b[1]), Sub(a[2], b[2]), Sub(a[3], b[3])>>
VScale(s, a) == <<Mul(s, a[1]), Mul(s, a[2]), Mul(s, a[3])>>
VNeg(a) == <<Neg(a[1]), Neg(a[2]), Neg(a[3])>>
Dot(a, b) == Add(Add(Mul(a[1], b[1]), Mul(a[2], b[2])), Mul(a[3], b[3]))
\* a % b of SimTK: the cross product.
Cross(a, b) ==
    << Sub(Mul(a[2], b[3]), Mul(a[3], b[2])),
       Sub(Mul(a[3], b[1]), Mul(a[1], b[3])),
       Sub(Mul(a[1], b[2]), Mul(a[2], b[1])) >>
Norm(a) == Sqrt(Dot(a, a))
VIsFinite(a) == ~IsNaN(a[1]) /\ ~IsNaN(a[2]) /\ ~IsNaN(a[3])
\* UnitVec3(v): v/|v|; the zero vector normalizes to NaN components.
UnitVec3(v) ==
    LET n == Norm(v)
    IN  IF IsNaN(n) \/ n = 0 THEN Vec3NaN
        ELSE <<Div(v[1], n), Div(v[2], n), Div(v[3], n)>>

\* 3x3 matrices are triples of rows.
Mat33Id == << <<1, 0, 0>>, <<0, 1, 0>>, <<0, 0, 1>> >>
MatVec(M, v) == <<Dot(M[1], v), Dot(M[2], v), Dot(M[3], v)>>
MatCol(M, j) == <<M[1][j], M[2][j], M[3][j]>>
MatT(M) == <<MatCol(M, 1), MatCol(M, 2), MatCol(M, 3)>>
MatMul(A, B) ==
    << <<Dot(A[1], MatCol(B, 1)), Dot(A[1], MatCol(B, 2)), Dot(A[1], MatCol(B, 3))>>,
       <<Dot(A[2], MatCol(B, 1)), Dot(A[2], MatCol(B, 2)), Dot(A[2], MatCol(B, 3))>>,
       <<Dot(A[3], MatCol(B, 1)), Dot(A[3], MatCol(B, 2)), Dot(A[3], MatCol(B, 3))>> >>

\* Spatial vectors are pairs (angular or moment part, linear part).
SpatialVec(a, b) == <<a, b>>
SpatialZero == <<Vec3Zero, Vec3Zero>>
SpatialNaN == <<Vec3NaN, Vec3NaN>>
SAdd(x, y) == <<VAdd(x[1], y[1]), VAdd(x[2], y[2])>>
SSub(x, y) == <<VSub(x[1], y[1]), VSub(x[2], y[2])>>
SNeg(x) == <<VNeg(x[1]), VNeg(x[2])>>

\* Quarter-turn rotations about the coordinate axes.
Cos4(k) == CASE k % 4 = 0 -> 1 [] k % 4 = 2 -> -1 [] OTHER -> 0
Sin4(k) == CASE k % 4 = 1 -> 1 [] k % 4 = 3 -> -1 [] OTHER -> 0
RotX(k) == << <<1, 0, 0>>, <<0, Cos4(k), 0 - Sin4(k)>>, <<0, Sin4(k), Cos4(k)>> >>
RotY(k) == << <<Cos4(k), 0, Sin4(k)>>, <<0, 1, 0>>, <<0 - Sin4(k), 0, Cos4(k)>> >>
RotZ(k) == << <<Cos4(k), 0 - Sin4(k), 0>>, <<Sin4(k), Cos4(k), 0>>, <<0, 0, 1>> >>

Transform(R, p) == [R |-> R, p |-> p]
TransformId == Transform(Mat33Id, Vec3Zero)

\* =========================================================================
\*                               STATE
\* =========================================================================
VARIABLES
    \* ---- Force::Gravity (GravityImpl and the States it is used with)
    adopted,            \* the element was constructed and adopted by the force subsystem
    defDirection,       \* TOPOLOGY STATE of GravityImpl
    defMagnitude,
    defZeroHeight,
    defMobodIsImmune,
    numEvaluations,     \* mutable long long, shared by all States
    stage,              \* per State: the stage it is realized to
    instanceVars,       \* per State: the InstanceVars discrete variable
    forceCache,         \* per State: the ForceCache cache entry
    cacheValid,         \* per State: isCacheValueRealized(forceCacheIx)
    bodyTransform,      \* per State: X_GB of every mobilized body
    pc,                 \* per thread: position inside ensureForceCacheValid
    reg,                \* per thread: the counter value it loaded
    nComputed,          \* history: number of force-cache computations performed
    lastOp,             \* history: the last call, its arguments, outcome and result
    \* ---- one force evaluation
    bodyForces,
    particleForces,
    mobilityForces,
    applied,            \* force elements that already added into the arrays, in call order
    \* ---- the tree of RigidBodyNodes and its passes
    parent,             \* per node: index of its parent
    mobilized,          \* the nodes that carry a Free mobilizer (the others are Welds)
    pass,               \* the pass the driver is running
    seq,                \* nodes the driver processed in this pass, in order
    written,            \* history: entries written in this pass
    badReads,           \* history: entries read in this pass before being written
    realized,           \* the stage passes completed
    lastReads,          \* history: entries the last node step read
    positionCache,      \* per node: SBPositionCache entries
    velocityCache,      \* per node: SBVelocityCache entries
    dynamicsCache,      \* per node: SBDynamicsCache entries
    allZ, allGepsilon, allA_GB, allF,           \* per-body work arrays
    allUDot, allEpsilon, allTau, qdotdot,       \* generalized (joint-space) vectors
    \* ---- one mobilizer and its generalized coordinates
    jointType,
    useEuler,           \* SBModelVars::useEulerAngles
    q,                  \* the mobilizer's q slots (maxNQ of them)
    u,                  \* the mobilizer's u slots
    X_FM,               \* result of the last calcAcrossJointTransform
    lastFit,            \* history: the last operator applied and its argument
    impl,               \* Custom only: NU, NQ and NumAngles of the implementation
    qErrest,            \* the error-estimate vector handed along with q (may be empty)
    returned,           \* flag returned by the last operator
    nodes,              \* the nodes created so far, in order of creation
    nextUSlot,          \* running counter of u slots handed out
    nextQSlot,          \* running counter of q slots handed out
    created,            \* what the last createRigidBodyNode returned
    ndebug,             \* the build has NDEBUG defined (assert compiles to nothing)
    halted,             \* an assertion failed: the process was aborted
    geom,               \* the mobilizer's constants: Screw's pitch, Ellipsoid's semi-axes
    H_FM,               \* the Jacobian handed to the last calc...Jacobian / ReverseMobilizerH
    HDot_FM,            \* the same for its time derivative
    sbStage,            \* stage of the state the SBStateDigest was made for
    outBuf,             \* the caller's output array (out, qdot or qdotdot)
    call,               \* history: the last raw operator called and its input array
    implStage,          \* Custom only: the stage the user implementation has realized
    realizeLog          \* history: what the last realize call of a Custom node invoked, in order

gravityVars ==
    << adopted, defDirection, defMagnitude, defZeroHeight, defMobodIsImmune,
       numEvaluations, stage, instanceVars, forceCache, cacheValid,
       bodyTransform, pc, reg, nComputed, lastOp >>
evalVars == << bodyForces, particleForces, mobilityForces, applied >>
treeVars ==
    << parent, mobilized, pass, seq, written, badReads, realized, lastReads,
       positionCache, velocityCache, dynamicsCache,
       allZ, allGepsilon, allA_GB, allF, allUDot, allEpsilon, allTau, qdotdot >>
nodeVars ==
    << impl, qErrest, returned, nodes, nextUSlot, nextQSlot, created, ndebug, halted,
       geom, H_FM, HDot_FM, sbStage, outBuf, call, implStage, realizeLog >>
jointVars == << jointType, useEuler, q, u, X_FM, lastFit, nodeVars >>
vars == << gravityVars, evalVars, treeVars, jointVars >>

\* =========================================================================
\*                         FORCE :: GRAVITY
\* =========================================================================
\* The State instances in use (one per thread in the concurrent runs).
States == DOMAIN stage

\* ---- inputs offered to the element
MagnitudeInputs == {-1, 0, 2}
DirectionInputs == {<<0, 0, -1>>, <<0, -1, 0>>, Vec3NaN}
GravityInputs == {Vec3Zero, <<0, -2, 0>>}
ZeroHeightInputs == {0, 1}
BodyInputs == 0..NumBodies

\* ---- the matter subsystem seen by the element
\* mobod.getBodyMassProperties(state): mass and mass center (in B) of body b.
BodyMass(b) == b + 1
BodyMassCenter(b) == IF b % 2 = 1 THEN <<1, 0, 0>> ELSE <<0, 1, 2>>
\* mobod.getBodyTransform(state): the poses a body is put in.
BodyPoses ==
    { Transform(Mat33Id, Vec3Zero),
      Transform(RotZ(1), <<1, 0, 2>>) }
\* matter.getAllParticleMasses(state), getAllParticleLocations(state).
ParticleMass(px) == px + 1
ParticleLocation(px) == <<px, 0, 1>>

\* ---- arrays indexed from 0
Size(arr) == Cardinality(DOMAIN arr)
Resize(arr, n, fill) ==
    [i \in 0..(n - 1) |-> IF i \in DOMAIN arr THEN arr[i] ELSE fill]
EmptyArray == [i \in {} |-> 0]
Range(f) == {f[i] : i \in DOMAIN f}

InstanceVars(d, g, z, imm) == [d |-> d, g |-> g, z |-> z, mobodIsImmune |-> imm]

\* ForceCache::setToZero, setToNaN and allocate.
setToZero(fc) ==
    [F_GB |-> [b \in DOMAIN fc.F_GB |-> SpatialZero],
     f_GP |-> [p \in DOMAIN fc.f_GP |-> Vec3Zero],
     pe |-> 0]
setToNaN(fc) ==
    [F_GB |-> [b \in DOMAIN fc.F_GB |-> IF b = 0 THEN SpatialZero ELSE SpatialNaN],
     f_GP |-> [p \in DOMAIN fc.f_GP |-> Vec3NaN],
     pe |-> NaN]
allocate(nb, np) ==
    setToNaN([F_GB |-> [b \in 0..(nb - 1) |-> SpatialNaN],
              f_GP |-> [p \in 0..(np - 1) |-> Vec3NaN],
              pe |-> NaN])

\* Values of the per-State entries before realizeTopology allocated them.
NoInstanceVars == InstanceVars(Vec3Zero, 0, 0, EmptyArray)
NoForceCache == [F_GB |-> EmptyArray, f_GP |-> EmptyArray, pe |-> 0]
NoTransforms == [b \in 0..(NumBodies - 1) |-> TransformId]

\* ---- history of calls: name, vector argument, scalar argument, whether the
\* call was accepted, and the value it returned.  For a query the vector
\* records whether it found the cache entry valid.
NoRet == SpatialZero
Call(op, vec, real, ok, ret) ==
    [op |-> op, vec |-> vec, real |-> real, ok |-> ok, ret |-> ret]
Flag(b) == IF b THEN 1 ELSE 0
RealRet(x) == <<<<x, 0, 0>>, Vec3Zero>>
Vec3Ret(v) == <<v, Vec3Zero>>

otherThanGravity == << evalVars, treeVars, jointVars >>
otherThanGravityAndEval == << treeVars, jointVars >>

\* ---- construction (the two public constructors)
\* Gravity(forces, matter, defDirection, defMagnitude, defZeroHeight): the
\* GravityImpl is built first, then the arguments are checked, then the element
\* is adopted; a failed check destroys the unadopted object.
Gravity(defDir, defMag, defZ) ==
    /\ ~adopted
    /\ LET ok == Ge0(defMag) /\ VIsFinite(defDir)
       IN  /\ lastOp' = Call("Gravity", defDir, defMag, ok, NoRet)
           /\ IF ok
              THEN /\ adopted' = TRUE
                   /\ defDirection' = defDir
                   /\ defMagnitude' = defMag
                   /\ defZeroHeight' = defZ
                   /\ defMobodIsImmune' = [b \in 0..(NumBodies - 1) |-> b = 0]
                   /\ numEvaluations' = 0
              ELSE UNCHANGED << adopted, defDirection, defMagnitude, defZeroHeight,
                                defMobodIsImmune, numEvaluations >>
    /\ UNCHANGED << stage, instanceVars, forceCache, cacheValid, bodyTransform,
                    pc, reg, nComputed >>
    /\ UNCHANGED otherThanGravity

\* Gravity(forces, matter, defGravity).
GravityVec3(defGravity) ==
    /\ ~adopted
    /\ LET ok == Gt0(Norm(defGravity))
       IN  /\ lastOp' = Call("GravityVec3", defGravity, 0, ok, NoRet)
           /\ IF ok
              THEN /\ adopted' = TRUE
                   /\ defDirection' = UnitVec3(defGravity)
                   /\ defMagnitude' = Norm(defGravity)
                   /\ defZeroHeight' = 0
                   /\ defMobodIsImmune' = [b \in 0..(NumBodies - 1) |-> b = 0]
                   /\ numEvaluations' = 0
              ELSE UNCHANGED << adopted, defDirection, defMagnitude, defZeroHeight,
                                defMobodIsImmune, numEvaluations >>
    /\ UNCHANGED << stage, instanceVars, forceCache, cacheValid, bodyTransform,
                    pc, reg, nComputed >>
    /\ UNCHANGED otherThanGravity

\* ---- default (topology) setters
\* invalidateTopologyCache(): every State built on the old topology has to be
\* realized again from the Topology stage.
invalidateTopologyCache ==
    /\ stage' = [s \in States |-> StageEmpty]
    /\ cacheValid' = [s \in States |-> FALSE]
    /\ instanceVars' = [s \in States |-> NoInstanceVars]
    /\ forceCache' = [s \in States |-> NoForceCache]
    /\ bodyTransform' = [s \in States |-> NoTransforms]

\* Variant: lets Ground's flag be set like any other.
setMobodIsImmuneByDefault_anyBody(imm, mbx, isImmune) ==
    LET grown == IF Size(imm) < mbx + 1 THEN Resize(imm, mbx + 1, FALSE) ELSE imm
    IN  [grown EXCEPT ![mbx] = isImmune]

\* GravityImpl::setMobodIsImmuneByDefault.
setMobodIsImmuneByDefault(imm, mbx, isImmune) ==
    IF mbx = 0 THEN imm
    ELSE LET grown == IF Size(imm) < mbx + 1 THEN Resize(imm, mbx + 1, FALSE) ELSE imm
         IN  [grown EXCEPT ![mbx] = isImmune]

setDefaultBodyIsExcluded(mobod, isExcluded) ==
    /\ adopted
    /\ defMobodIsImmune' = setMobodIsImmuneByDefault(defMobodIsImmune, mobod, isExcluded)
    /\ lastOp' = Call("setDefaultBodyIsExcluded", <<Flag(isExcluded), 0, 0>>, mobod, TRUE, NoRet)
    /\ UNCHANGED << adopted, defDirection, defMagnitude, defZeroHeight, numEvaluations,
                    stage, instanceVars, forceCache, cacheValid, bodyTransform,
                    pc, reg, nComputed >>
    /\ UNCHANGED otherThanGravity

setDefaultGravityVector(gravity) ==
    /\ adopted
    /\ LET g == Norm(gravity)
           ok == Gt0(g)
       IN  /\ lastOp' = Call("setDefaultGravityVector", gravity, 0, ok, NoRet)
           /\ IF ok
              THEN /\ invalidateTopologyCache
                   /\ defMagnitude' = g
                   /\ defDirection' = <<Div(gravity[1], g), Div(gravity[2], g), Div(gravity[3], g)>>
              ELSE UNCHANGED << stage, cacheValid, instanceVars, forceCache, bodyTransform, defMagnitude, defDirection >>
    /\ UNCHANGED << adopted, defZeroHeight, defMobodIsImmune, numEvaluations,
                    pc, reg, nComputed >>
    /\ UNCHANGED otherThanGravity

setDefaultDownDirection(down) ==
    /\ adopted
    /\ LET ok == VIsFinite(down)
       IN  /\ lastOp' = Call("setDefaultDownDirection", down, 0, ok, NoRet)
           /\ IF ok
              THEN invalidateTopologyCache /\ defDirection' = down
              ELSE UNCHANGED << stage, cacheValid, instanceVars, forceCache, bodyTransform, defDirection >>
    /\ UNCHANGED << adopted, defMagnitude, defZeroHeight, defMobodIsImmune, numEvaluations,
                    pc, reg, nComputed >>
    /\ UNCHANGED otherThanGravity

setDefaultMagnitude(g) ==
    /\ adopted
    /\ LET ok == Ge0(g)
       IN  /\ lastOp' = Call("setDefaultMagnitude", Vec3Zero, g, ok, NoRet)
           /\ IF ok
              THEN invalidateTopologyCache /\ defMagnitude' = g
              ELSE UNCHANGED << stage, cacheValid, instanceVars, forceCache, bodyTransform, defMagnitude >>
    /\ UNCHANGED << adopted, defDirection, defZeroHeight, defMobodIsImmune, numEvaluations,
                    pc, reg, nComputed >>
    /\ UNCHANGED otherThanGravity

setDefaultZeroHeight(zeroHeight) ==
    /\ adopted
    /\ invalidateTopologyCache
    /\ defZeroHeight' = zeroHeight
    /\ lastOp' = Call("setDefaultZeroHeight", Vec3Zero, zeroHeight, TRUE, NoRet)
    /\ UNCHANGED << adopted, defDirection, defMagnitude, defMobodIsImmune, numEvaluations,
                    pc, reg, nComputed >>
    /\ UNCHANGED otherThanGravity

\* ---- realization
realizeTopology(s) ==
    /\ adopted
    /\ stage[s] = StageEmpty
    /\ LET imm == IF Size(defMobodIsImmune) # NumBodies
                  THEN Resize(defMobodIsImmune, NumBodies, FALSE)
                  ELSE defMobodIsImmune
       IN  /\ defMobodIsImmune' = imm
           /\ instanceVars' = [instanceVars EXCEPT ![s] =
                  InstanceVars(defDirection, defMagnitude, defZeroHeight, imm)]
    /\ forceCache' = [forceCache EXCEPT ![s] = allocate(NumBodies, NumParticles)]
    /\ cacheValid' = [cacheValid EXCEPT ![s] = FALSE]
    /\ stage' = [stage EXCEPT ![s] = StageTopology]
    /\ lastOp' = Call("realizeTopology", Vec3Zero, 0, TRUE, NoRet)
    /\ UNCHANGED << adopted, defDirection, defMagnitude, defZeroHeight, numEvaluations,
                    bodyTransform, pc, reg, nComputed >>
    /\ UNCHANGED otherThanGravity

\* The force cache as GravityImpl::realizeInstance leaves it.
InstanceForceCache_noImmunity(iv, fc) ==
    IF iv.g = 0 THEN setToZero(fc) ELSE setToNaN(fc)
InstanceForceCache(iv, fc) ==
    LET base == IF iv.g = 0 THEN setToZero(fc) ELSE setToNaN(fc)
    IN  [base EXCEPT !.F_GB =
            [b \in DOMAIN base.F_GB |->
                IF b \in DOMAIN iv.mobodIsImmune /\ iv.mobodIsImmune[b]
                THEN SpatialZero ELSE base.F_GB[b]]]

realizeInstance(s) ==
    /\ adopted
    /\ stage[s] = StageTopology
    /\ forceCache' = [forceCache EXCEPT ![s] = InstanceForceCache(instanceVars[s], @)]
    /\ stage' = [stage EXCEPT ![s] = StageInstance]
    /\ lastOp' = Call("realizeInstance", Vec3Zero, 0, TRUE, NoRet)
    /\ UNCHANGED << adopted, defDirection, defMagnitude, defZeroHeight, defMobodIsImmune,
                    numEvaluations, instanceVars, cacheValid, bodyTransform,
                    pc, reg, nComputed >>
    /\ UNCHANGED otherThanGravity

\* The matter subsystem realizes body transforms; from then on the force
\* cache entry (earliest stage Position) may be computed.
realizePosition(s) ==
    /\ adopted
    /\ stage[s] = StageInstance
    /\ pc[s] = "idle"
    /\ stage' = [stage EXCEPT ![s] = StagePosition]
    /\ lastOp' = Call("realizePosition", Vec3Zero, 0, TRUE, NoRet)
    /\ UNCHANGED << adopted, defDirection, defMagnitude, defZeroHeight, defMobodIsImmune,
                    numEvaluations, instanceVars, forceCache, cacheValid, bodyTransform,
                    pc, reg, nComputed >>
    /\ UNCHANGED otherThanGravity

\* A change of the generalized coordinates moves body mbx; the Position stage
\* and with it the force cache entry are invalidated.
setBodyTransform(s, mbx, X) ==
    /\ adopted
    /\ stage[s] >= StageInstance
    /\ pc[s] = "idle"
    /\ bodyTransform[s][mbx] # X
    /\ bodyTransform' = [bodyTransform EXCEPT ![s][mbx] = X]
    /\ stage' = [stage EXCEPT ![s] = StageInstance]
    /\ cacheValid' = [cacheValid EXCEPT ![s] = FALSE]
    /\ lastOp' = Call("setBodyTransform", X.p, mbx, TRUE, NoRet)
    /\ UNCHANGED << adopted, defDirection, defMagnitude, defZeroHeight, defMobodIsImmune,
                    numEvaluations, instanceVars, forceCache, pc, reg, nComputed >>
    /\ UNCHANGED otherThanGravity

\* ---- per-State setters
\* updInstanceVars(state): write access to a discrete variable allocated at
\* Stage::Instance invalidates that stage and every cache entry above it.
updInstanceVars(s, iv) ==
    /\ instanceVars' = [instanceVars EXCEPT ![s] = iv]
    /\ stage' = [stage EXCEPT ![s] = StageTopology]
    /\ cacheValid' = [cacheValid EXCEPT ![s] = FALSE]

CanSet(s) == adopted /\ stage[s] >= StageTopology /\ pc[s] = "idle"

setBodyIsExcluded(s, mobod, isExcluded) ==
    /\ CanSet(s)
    /\ LET ok == mobod < NumBodies
       IN  /\ lastOp' = Call("setBodyIsExcluded", <<Flag(isExcluded), 0, 0>>, mobod, ok, NoRet)
           /\ IF ok /\ mobod # 0
              THEN updInstanceVars(s,
                       [instanceVars[s] EXCEPT !.mobodIsImmune[mobod] = isExcluded])
              ELSE UNCHANGED << instanceVars, stage, cacheValid >>
    /\ UNCHANGED << adopted, defDirection, defMagnitude, defZeroHeight, defMobodIsImmune,
                    numEvaluations, forceCache, bodyTransform, pc, reg, nComputed >>
    /\ UNCHANGED otherThanGravity

setGravityVector(s, gravity) ==
    /\ CanSet(s)
    /\ LET g == Norm(gravity)
           ok == Gt0(g)
       IN  /\ lastOp' = Call("setGravityVector", gravity, 0, ok, NoRet)
           /\ IF ok
              THEN updInstanceVars(s,
                       [instanceVars[s] EXCEPT
                           !.d = <<Div(gravity[1], g), Div(gravity[2], g), Div(gravity[3], g)>>,
                           !.g = g])
              ELSE UNCHANGED << instanceVars, stage, cacheValid >>
    /\ UNCHANGED << adopted, defDirection, defMagnitude, defZeroHeight, defMobodIsImmune,
                    numEvaluations, forceCache, bodyTransform, pc, reg, nComputed >>
    /\ UNCHANGED otherThanGravity

setDownDirection(s, down) ==
    /\ CanSet(s)
    /\ LET ok == VIsFinite(down)
       IN  /\ lastOp' = Call("setDownDirection", down, 0, ok, NoRet)
           /\ IF ok
              THEN updInstanceVars(s, [instanceVars[s] EXCEPT !.d = down])
              ELSE UNCHANGED << instanceVars, stage, cacheValid >>
    /\ UNCHANGED << adopted, defDirection, defMagnitude, defZeroHeight, defMobodIsImmune,
                    numEvaluations, forceCache, bodyTransform, pc, reg, nComputed >>
    /\ UNCHANGED otherThanGravity

\* Variant: stores the magnitude before checking it.
setMagnitude_storeFirst(s, g) ==
    /\ CanSet(s)
    /\ lastOp' = Call("setMagnitude", Vec3Zero, g, Ge0(g), NoRet)
    /\ updInstanceVars(s, [instanceVars[s] EXCEPT !.g = g])
    /\ UNCHANGED << adopted, defDirection, defMagnitude, defZeroHeight, defMobodIsImmune,
                    numEvaluations, forceCache, bodyTransform, pc, reg, nComputed >>
    /\ UNCHANGED otherThanGravity

setMagnitude(s, g) ==
    /\ CanSet(s)
    /\ LET ok == Ge0(g)
       IN  /\ lastOp' = Call("setMagnitude", Vec3Zero, g, ok, NoRet)
           /\ IF ok
              THEN updInstanceVars(s, [instanceVars[s] EXCEPT !.g = g])
              ELSE UNCHANGED << instanceVars, stage, cacheValid >>
    /\ UNCHANGED << adopted, defDirection, defMagnitude, defZeroHeight, defMobodIsImmune,
                    numEvaluations, forceCache, bodyTransform, pc, reg, nComputed >>
    /\ UNCHANGED otherThanGravity

setZeroHeight(s, zeroHeight) ==
    /\ CanSet(s)
    /\ updInstanceVars(s, [instanceVars[s] EXCEPT !.z = zeroHeight])
    /\ lastOp' = Call("setZeroHeight", Vec3Zero, zeroHeight, TRUE, NoRet)
    /\ UNCHANGED << adopted, defDirection, defMagnitude, defZeroHeight, defMobodIsImmune,
                    numEvaluations, forceCache, bodyTransform, pc, reg, nComputed >>
    /\ UNCHANGED otherThanGravity

\* ---- the lazily evaluated force cache
\* Variant: takes the mass-center offset in B without re-expressing it in G.
RECURSIVE BodyLoop_noReexpress(_, _, _, _, _)
BodyLoop_noReexpress(mbx, iv, X, gravity, fc) ==
    IF mbx >= NumBodies THEN fc
    ELSE IF iv.mobodIsImmune[mbx] THEN BodyLoop_noReexpress(mbx + 1, iv, X, gravity, fc)
    ELSE LET F_CB_G == VScale(BodyMass(mbx), gravity)
         IN  BodyLoop_noReexpress(mbx + 1, iv, X, gravity,
                 [fc EXCEPT !.F_GB[mbx] =
                      SpatialVec(Cross(BodyMassCenter(mbx), F_CB_G), F_CB_G)])

\* The loop over mobilized bodies of ensureForceCacheValid, from body mbx on.
RECURSIVE BodyLoop(_, _, _, _, _)
BodyLoop(mbx, iv, X, gravity, fc) ==
    IF mbx >= NumBodies THEN fc
    ELSE IF iv.mobodIsImmune[mbx] THEN BodyLoop(mbx + 1, iv, X, gravity, fc)
    ELSE LET m == BodyMass(mbx)
             p_CB == BodyMassCenter(mbx)
             p_CB_G == MatVec(X[mbx].R, p_CB)
             p_G_CB == VAdd(X[mbx].p, p_CB_G)
             F_CB_G == VScale(m, gravity)
             zeroPEOffset == Mul(iv.g, iv.z)
         IN  BodyLoop(mbx + 1, iv, X, gravity,
                 [fc EXCEPT !.F_GB[mbx] = SpatialVec(Cross(p_CB_G, F_CB_G), F_CB_G),
                            !.pe = Sub(@, Mul(m, Add(Dot(gravity, p_G_CB), zeroPEOffset)))])

\* The loop over particles, from particle px on.
RECURSIVE ParticleLoop(_, _, _, _)
ParticleLoop(px, iv, gravity, fc) ==
    IF px >= NumParticles THEN fc
    ELSE ParticleLoop(px + 1, iv, gravity,
             [fc EXCEPT !.f_GP[px] = VScale(ParticleMass(px), gravity),
                        !.pe = Sub(@, Mul(ParticleMass(px),
                                   Add(Dot(gravity, ParticleLocation(px)), Mul(iv.g, iv.z))))])

\* The computing part of ensureForceCacheValid (gravity is nonzero).
calcForceCache(iv, fc, X) ==
    LET gravity == VScale(iv.g, iv.d)
        bodies == BodyLoop(1, iv, X, gravity, [fc EXCEPT !.pe = 0])
    IN  IF NumParticles # 0 THEN ParticleLoop(0, iv, gravity, bodies) ELSE bodies

\* Variant: computes whether or not the cache entry is valid.
ensureForceCacheValid_recompute(s) ==
    /\ numEvaluations' = numEvaluations + 1
    /\ forceCache' = [forceCache EXCEPT ![s] =
           calcForceCache(instanceVars[s], @, bodyTransform[s])]
    /\ cacheValid' = [cacheValid EXCEPT ![s] = TRUE]
    /\ nComputed' = nComputed + 1

\* ensureForceCacheValid run by one thread without interruption.
ensureForceCacheValid(s) ==
    IF cacheValid[s]
    THEN UNCHANGED << forceCache, cacheValid, numEvaluations, nComputed >>
    ELSE IF instanceVars[s].g = 0
    THEN /\ cacheValid' = [cacheValid EXCEPT ![s] = TRUE]
         /\ UNCHANGED << forceCache, numEvaluations, nComputed >>
    ELSE /\ numEvaluations' = numEvaluations + 1
         /\ forceCache' = [forceCache EXCEPT ![s] =
                calcForceCache(instanceVars[s], @, bodyTransform[s])]
         /\ cacheValid' = [cacheValid EXCEPT ![s] = TRUE]
         /\ nComputed' = nComputed + 1

\* A query needs the Position stage; the counter is capped at MaxEvals.
CanQuery(s) ==
    /\ adopted
    /\ stage[s] = StagePosition
    /\ pc[s] = "idle"
    /\ cacheValid[s] \/ instanceVars[s].g = 0 \/ numEvaluations < MaxEvals

queryFrame ==
    UNCHANGED << adopted, defDirection, defMagnitude, defZeroHeight, defMobodIsImmune,
                 stage, instanceVars, bodyTransform, pc, reg >>

getPotentialEnergy(s) ==
    /\ CanQuery(s)
    /\ ensureForceCacheValid(s)
    /\ lastOp' = Call("getPotentialEnergy", <<Flag(cacheValid[s]), 0, 0>>, 0, TRUE, RealRet(forceCache'[s].pe))
    /\ queryFrame
    /\ UNCHANGED otherThanGravity

getBodyForce(s, mbx) ==
    /\ CanQuery(s)
    /\ ensureForceCacheValid(s)
    /\ lastOp' = Call("getBodyForce", <<Flag(cacheValid[s]), 0, 0>>, mbx, TRUE, forceCache'[s].F_GB[mbx])
    /\ queryFrame
    /\ UNCHANGED otherThanGravity

getParticleForce(s, px) ==
    /\ CanQuery(s)
    /\ ensureForceCacheValid(s)
    /\ lastOp' = Call("getParticleForce", <<Flag(cacheValid[s]), 0, 0>>, px, TRUE, Vec3Ret(forceCache'[s].f_GP[px]))
    /\ queryFrame
    /\ UNCHANGED otherThanGravity

calcPotentialEnergy(s) ==
    /\ CanQuery(s)
    /\ ensureForceCacheValid(s)
    /\ lastOp' = Call("calcPotentialEnergy", <<Flag(cacheValid[s]), 0, 0>>, 0, TRUE, RealRet(forceCache'[s].pe))
    /\ queryFrame
    /\ UNCHANGED otherThanGravity

\* ---- one force evaluation: the arrays and the elements adding into them
NumMobilities == NumBodies - 1
OtherElements == {"spring", "motor"}
\* What another force element adds for body b and for mobility i.
OtherBodyForce(e, b) ==
    IF e = "spring" THEN SpatialVec(<<b, 0, 0>>, <<0, 1, 0>>)
    ELSE SpatialVec(Vec3Zero, <<0, 0, 0 - b>>)
OtherMobilityForce(e, i) == IF e = "spring" THEN 0 ELSE i + 3

\* MatterSubsystem::resetForces.
resetForces ==
    /\ applied # <<>>
    /\ bodyForces' = [b \in 0..(NumBodies - 1) |-> SpatialZero]
    /\ particleForces' = [p \in {} |-> Vec3Zero]
    /\ mobilityForces' = [i \in 0..(NumMobilities - 1) |-> 0]
    /\ applied' = <<>>
    /\ UNCHANGED gravityVars
    /\ UNCHANGED otherThanGravityAndEval

\* Variant: assigns the gravity forces instead of adding them in.
calcForce_overwrite(s) ==
    /\ CanQuery(s)
    /\ "gravity" \notin Range(applied)
    /\ ensureForceCacheValid(s)
    /\ bodyForces' = [b \in DOMAIN bodyForces |-> forceCache'[s].F_GB[b]]
    /\ particleForces' = [p \in DOMAIN particleForces |-> forceCache'[s].f_GP[p]]
    /\ UNCHANGED mobilityForces
    /\ applied' = Append(applied, "gravity")
    /\ lastOp' = Call("calcForce", <<Flag(cacheValid[s]), 0, 0>>, 0, TRUE, NoRet)
    /\ queryFrame
    /\ UNCHANGED otherThanGravityAndEval

\* Force::GravityImpl::calcForce.
calcForce(s) ==
    /\ CanQuery(s)
    /\ "gravity" \notin Range(applied)
    /\ ensureForceCacheValid(s)
    /\ bodyForces' = [b \in DOMAIN bodyForces |->
                          SAdd(bodyForces[b], forceCache'[s].F_GB[b])]
    /\ particleForces' = [p \in DOMAIN particleForces |->
                          VAdd(particleForces[p], forceCache'[s].f_GP[p])]
    /\ UNCHANGED mobilityForces
    /\ applied' = Append(applied, "gravity")
    /\ lastOp' = Call("calcForce", <<Flag(cacheValid[s]), 0, 0>>, 0, TRUE, NoRet)
    /\ queryFrame
    /\ UNCHANGED otherThanGravityAndEval

\* calcForce of another element composed into the same evaluation.
otherCalcForce(e) ==
    /\ e \notin Range(applied)
    /\ bodyForces' = [b \in DOMAIN bodyForces |-> SAdd(bodyForces[b], OtherBodyForce(e, b))]
    /\ mobilityForces' = [i \in DOMAIN mobilityForces |->
                              Add(mobilityForces[i], OtherMobilityForce(e, i))]
    /\ UNCHANGED particleForces
    /\ applied' = Append(applied, e)
    /\ UNCHANGED gravityVars
    /\ UNCHANGED otherThanGravityAndEval

\* ---- ensureForceCacheValid as its steps interleave between threads.
\* The test of the cache flag, and the load of the counter for ++numEvaluations.
ensureCheck(t) ==
    /\ adopted
    /\ stage[t] = StagePosition
    /\ pc[t] = "idle"
    /\ ~cacheValid[t]
    /\ IF instanceVars[t].g = 0
       THEN /\ cacheValid' = [cacheValid EXCEPT ![t] = TRUE]
            /\ UNCHANGED << pc, reg >>
       ELSE /\ numEvaluations < MaxEvals
            /\ reg' = [reg EXCEPT ![t] = numEvaluations]
            /\ pc' = [pc EXCEPT ![t] = "loaded"]
            /\ UNCHANGED cacheValid
    /\ UNCHANGED << adopted, defDirection, defMagnitude, defZeroHeight, defMobodIsImmune,
                    numEvaluations, stage, instanceVars, forceCache, bodyTransform,
                    nComputed, lastOp >>
    /\ UNCHANGED otherThanGravity

\* The store of ++numEvaluations.
ensureStore(t) ==
    /\ pc[t] = "loaded"
    /\ numEvaluations' = reg[t] + 1
    /\ pc' = [pc EXCEPT ![t] = "counted"]
    /\ UNCHANGED << adopted, defDirection, defMagnitude, defZeroHeight, defMobodIsImmune,
                    stage, instanceVars, forceCache, cacheValid, bodyTransform,
                    reg, nComputed, lastOp >>
    /\ UNCHANGED otherThanGravity

\* The computation into the State's private cache entry, and markForceCacheValid.
ensureCompute(t) ==
    /\ pc[t] = "counted"
    /\ forceCache' = [forceCache EXCEPT ![t] =
           calcForceCache(instanceVars[t], @, bodyTransform[t])]
    /\ cacheValid' = [cacheValid EXCEPT ![t] = TRUE]
    /\ nComputed' = nComputed + 1
    /\ pc' = [pc EXCEPT ![t] = "idle"]
    /\ UNCHANGED << adopted, defDirection, defMagnitude, defZeroHeight, defMobodIsImmune,
                    numEvaluations, stage, instanceVars, bodyTransform, reg, lastOp >>
    /\ UNCHANGED otherThanGravity

\* =========================================================================
\*                    RIGID BODY NODES: GROUND AND WELD
\* =========================================================================
Nodes == 0..(NumNodes - 1)
\* Trees over the nodes: node 0 is Ground, every other node's parent has a
\* smaller index.
TreeShapes ==
    {f \in [Nodes -> -1..(NumNodes - 2)] :
        f[0] = -1 /\ \A k \in Nodes \ {0} : 0 <= f[k] /\ f[k] < k}
Children(n) == {c \in Nodes : c # 0 /\ parent[c] = n}

\* ---- the fixed data of node k (constructor arguments of RBNodeWeld)
NodeMass(k) == k
NodeCOM_B(k) == IF k % 2 = 1 THEN <<1, 0, 0>> ELSE <<0, 1, 0>>
NodeInertia_OB_B(k) == << <<2 * k, 0, 0>>, <<0, 3 * k, 0>>, <<0, 0, 4 * k>> >>
NodeX_PF(k) == Transform(RotZ(1), <<k, 0, 1>>)
NodeX_MB(k) == Transform(RotX(1), <<0, 1, 0>>)

\* ---- spatial algebra
MatAdd(A, B) == <<VAdd(A[1], B[1]), VAdd(A[2], B[2]), VAdd(A[3], B[3])>>
MatSub(A, B) == <<VSub(A[1], B[1]), VSub(A[2], B[2]), VSub(A[3], B[3])>>
MatScale(x, A) == <<VScale(x, A[1]), VScale(x, A[2]), VScale(x, A[3])>>
MatNaN == <<Vec3NaN, Vec3NaN, Vec3NaN>>
crossMat(v) ==
    << <<0, Neg(v[3]), v[2]>>, <<v[3], 0, Neg(v[1])>>, <<Neg(v[2]), v[1], 0>> >>
\* Transform composition X_AB * X_BC.
XMul(X, Y) == Transform(MatMul(X.R, Y.R), VAdd(X.p, MatVec(X.R, Y.p)))
TransformNaN == Transform(MatNaN, Vec3NaN)

\* A SpatialMat is a 2x2 matrix of Mat33 blocks.
SpatialMat(A, B, C, D) == << <<A, B>>, <<C, D>> >>
SpatialMatId == SpatialMat(Mat33Id, MatScale(0, Mat33Id), MatScale(0, Mat33Id), Mat33Id)
SpatialMatZero == SpatialMat(MatScale(0, Mat33Id), MatScale(0, Mat33Id),
                             MatScale(0, Mat33Id), MatScale(0, Mat33Id))
SpatialMatNaN == SpatialMat(MatNaN, MatNaN, MatNaN, MatNaN)
SMAdd(M, N) ==
    SpatialMat(MatAdd(M[1][1], N[1][1]), MatAdd(M[1][2], N[1][2]),
               MatAdd(M[2][1], N[2][1]), MatAdd(M[2][2], N[2][2]))
SMMul(M, N) ==
    SpatialMat(MatAdd(MatMul(M[1][1], N[1][1]), MatMul(M[1][2], N[2][1])),
               MatAdd(MatMul(M[1][1], N[1][2]), MatMul(M[1][2], N[2][2])),
               MatAdd(MatMul(M[2][1], N[1][1]), MatMul(M[2][2], N[2][1])),
               MatAdd(MatMul(M[2][1], N[1][2]), MatMul(M[2][2], N[2][2])))
SMVec(M, v) ==
    SpatialVec(VAdd(MatVec(M[1][1], v[1]), MatVec(M[1][2], v[2])),
               VAdd(MatVec(M[2][1], v[1]), MatVec(M[2][2], v[2])))

\* PhiMatrix(l) is kept as its shift vector l.  phi*v and ~phi*v on spatial
\* vectors, phi*M and M*~phi on spatial matrices.
PhiVec(l, v) == SpatialVec(VAdd(v[1], Cross(l, v[2])), v[2])
PhiTVec(l, v) == SpatialVec(v[1], VAdd(v[2], Cross(v[1], l)))
PhiSM(l, M) ==
    SpatialMat(MatAdd(M[1][1], MatMul(crossMat(l), M[2][1])),
               MatAdd(M[1][2], MatMul(crossMat(l), M[2][2])),
               M[2][1], M[2][2])
SMPhiT(M, l) ==
    SpatialMat(MatSub(M[1][1], MatMul(M[1][2], crossMat(l))), M[1][2],
               MatSub(M[2][1], MatMul(M[2][2], crossMat(l))), M[2][2])

\* ---- cache entries
PositionEntry(X_FMv, X_PB, X_GB, Phi, Inertia_OB_G, CB_G, COM_G, Mk) ==
    [X_FM |-> X_FMv, X_PB |-> X_PB, X_GB |-> X_GB, Phi |-> Phi,
     Inertia_OB_G |-> Inertia_OB_G, CB_G |-> CB_G, COM_G |-> COM_G, Mk |-> Mk]
VelocityEntry(V_FM, V_PB_G, V_GB) == [V_FM |-> V_FM, V_PB_G |-> V_PB_G, V_GB |-> V_GB]
DynamicsEntry(P, TauBar, Psi, VD_PB_G, gyro, cor, totalCor, cen, totalCen) ==
    [P |-> P, TauBar |-> TauBar, Psi |-> Psi, VD_PB_G |-> VD_PB_G,
     gyroscopicForce |-> gyro, coriolisAcceleration |-> cor,
     totalCoriolisAcceleration |-> totalCor, centrifugalForces |-> cen,
     totalCentrifugalForces |-> totalCen]

\* Entries as allocated: not-a-number everywhere except Ground's, which hold
\* Ground's constant pose, velocity and velocity-dependent terms for good (no
\* Ground step of a stage pass writes anything).
AllocatedPosition(n) ==
    IF n = 0
    THEN PositionEntry(TransformId, TransformId, TransformId, Vec3Zero,
                       MatNaN, Vec3NaN, Vec3NaN, SpatialMatNaN)
    ELSE PositionEntry(TransformNaN, TransformNaN, TransformNaN, Vec3NaN,
                       MatNaN, Vec3NaN, Vec3NaN, SpatialMatNaN)
AllocatedVelocity(n) ==
    IF n = 0 THEN VelocityEntry(SpatialZero, SpatialZero, SpatialZero)
    ELSE VelocityEntry(SpatialNaN, SpatialNaN, SpatialNaN)
AllocatedDynamics(n) ==
    IF n = 0
    THEN DynamicsEntry(SpatialMatNaN, SpatialMatNaN, SpatialMatNaN, SpatialZero,
                       SpatialZero, SpatialZero, SpatialZero, SpatialZero, SpatialZero)
    ELSE DynamicsEntry(SpatialMatNaN, SpatialMatNaN, SpatialMatNaN, SpatialNaN,
                       SpatialNaN, SpatialNaN, SpatialNaN, SpatialNaN, SpatialNaN)
GroundEntries ==
    {<<e, 0>> : e \in {"X_GB", "V_GB", "totalCoriolisAcceleration"}}

\* ---- the driver's bookkeeping
StagePasses == {"position", "velocity", "dynamics", "abi"}
OutwardPasses ==
    {"position", "velocity", "dynamics", "udot2", "minvf2", "ma1", "accel", "qdotdot"}
InwardPasses == {"abi", "udot1", "minvf1", "ma2", "ejf"}
\* The pass that follows at once: pass 2 of a two-pass operator.
SecondPass(p) ==
    CASE p = "udot1" -> "udot2" [] p = "minvf1" -> "minvf2"
      [] p = "ma1" -> "ma2" [] OTHER -> "none"
\* The entries each node writes during a pass.
Produced(p) ==
    CASE p = "position" ->
            {"X_FM", "X_PB", "X_GB", "Phi", "Inertia_OB_G", "CB_G", "COM_G", "Mk"}
      [] p = "velocity" -> {"V_FM", "V_PB_G", "V_GB"}
      [] p = "dynamics" ->
            {"VD_PB_G", "gyroscopicForce", "coriolisAcceleration",
             "totalCoriolisAcceleration", "centrifugalForces",
             "totalCentrifugalForces"}
      [] p = "abi" -> {"P", "TauBar", "Psi"}
      [] p \in {"udot1", "minvf1"} -> {"allZ", "allGepsilon"}
      [] p \in {"udot2", "minvf2", "ma1"} -> {"allA_GB"}
      [] p = "ma2" -> {"allF"}
      [] p = "ejf" -> {"allZ"}
      [] OTHER -> {}
GeneralizedEntries == {"allUDot", "allEpsilon", "allTau", "qdotdot"}
Own(n, names) == {<<e, n>> : e \in names}
Of(ns, names) == {<<e, c>> : e \in names, c \in ns}

otherThanTree == << gravityVars, evalVars, jointVars, parent, mobilized, realized >>
generalizedVectors == << allUDot, allEpsilon, allTau, qdotdot >>
spatialArrays == << allZ, allGepsilon, allA_GB, allF >>
caches == << positionCache, velocityCache, dynamicsCache >>

\* Node n takes its turn in pass p; reads and writes are the entries its
\* step reads and writes.  A read of an entry nobody wrote is recorded.
Turn(p, n, reads, writes) ==
    /\ pass = p
    /\ n \in Nodes \ Range(seq)
    /\ seq' = Append(seq, n)
    /\ lastReads' = reads
    /\ badReads' = badReads \cup (reads \ written)
    /\ written' = written \cup writes
    /\ UNCHANGED << pass, otherThanTree >>

\* The driver starts pass p over the whole tree.  The stage passes run once,
\* position first, velocity second, then the two dynamics-stage passes; the
\* operators need all four.  Nothing further is started after a step has
\* read an unwritten entry.
beginPass(p) ==
    /\ pass = "none"
    /\ badReads = {}
    /\ CASE p = "position" -> realized = {}
         [] p = "velocity" -> realized = {"position"}
         [] p \in {"dynamics", "abi"} ->
                {"position", "velocity"} \subseteq realized /\ p \notin realized
         [] OTHER -> realized = StagePasses
    /\ pass' = p
    /\ seq' = <<>>
    /\ lastReads' = {}
    /\ written' = {w \in written : w[1] \notin Produced(p)} \cup
                  (GroundEntries \cap Of({0}, Produced(p)))
    /\ UNCHANGED << otherThanTree, badReads, caches, spatialArrays,
                    generalizedVectors >>

endPass ==
    /\ pass # "none"
    /\ Range(seq) = Nodes
    /\ pass' = SecondPass(pass)
    /\ realized' = IF pass \in StagePasses THEN realized \cup {pass} ELSE realized
    /\ seq' = <<>>
    /\ lastReads' = {}
    /\ written' = IF SecondPass(pass) = "none" THEN written
                  ELSE {w \in written : w[1] \notin Produced(SecondPass(pass))}
    /\ UNCHANGED << gravityVars, evalVars, jointVars, parent, mobilized, badReads, caches,
                    spatialArrays, generalizedVectors >>

\* ---- Ground: node 0
Ground_step ==
    /\ pass # "none"
    /\ 0 \notin Range(seq)
    /\ seq' = Append(seq, 0)
    /\ lastReads' = IF pass \in {"udot1", "ejf"} THEN {<<"bodyForces", 0>>} ELSE {}
    /\ badReads' = badReads
    /\ written' = written \cup
            (IF pass \in StagePasses THEN {} ELSE Own(0, Produced(pass)))
    /\ allZ' = CASE pass = "udot1" -> [allZ EXCEPT ![0] = SNeg(bodyForces[0])]
                 [] pass = "minvf1" -> [allZ EXCEPT ![0] = SpatialZero]
                 [] pass = "ejf" -> [allZ EXCEPT ![0] = bodyForces[0]]
                 [] OTHER -> allZ
    /\ allGepsilon' = IF pass \in {"udot1", "minvf1"}
                      THEN [allGepsilon EXCEPT ![0] = SpatialZero]
                      ELSE allGepsilon
    /\ allA_GB' = IF pass \in {"udot2", "minvf2", "ma1"}
                  THEN [allA_GB EXCEPT ![0] = SpatialZero]
                  ELSE allA_GB
    /\ allF' = IF pass = "ma2" THEN [allF EXCEPT ![0] = SpatialZero] ELSE allF
    /\ UNCHANGED << pass, gravityVars, evalVars, jointVars, parent, mobilized, realized,
                    caches, generalizedVectors >>

\* ---- Weld: every node but Ground
Welds == Nodes \ ({0} \cup mobilized)
RECURSIVE SMAccumulate(_, _, _)
SMAccumulate(acc, S, term) ==
    IF S = {} THEN acc
    ELSE LET c == CHOOSE x \in S : \A y \in S : x <= y
         IN SMAccumulate(SMAdd(acc, term[c]), S \ {c}, term)
RECURSIVE SVAccumulate(_, _, _)
SVAccumulate(acc, S, term) ==
    IF S = {} THEN acc
    ELSE LET c == CHOOSE x \in S : \A y \in S : x <= y
         IN SVAccumulate(SAdd(acc, term[c]), S \ {c}, term)

Weld_realizePosition(n) ==
    /\ pass = "position" /\ n \in Welds \ Range(seq)
    /\ LET X_GP == positionCache[parent[n]].X_GB
           X_PB == XMul(NodeX_PF(n), NodeX_MB(n))
           X_GB == XMul(X_GP, X_PB)
           p_PB_G == MatVec(X_GP.R, X_PB.p)
           Inertia_OB_G == MatMul(MatMul(X_GB.R, NodeInertia_OB_B(n)), MatT(X_GB.R))
           CB_G == MatVec(X_GB.R, NodeCOM_B(n))
           COM_G == VAdd(X_GB.p, CB_G)
           offDiag == MatScale(NodeMass(n), crossMat(CB_G))
           Mk == SpatialMat(Inertia_OB_G, offDiag,
                            MatScale(-1, offDiag), MatScale(NodeMass(n), Mat33Id))
       IN /\ positionCache' = [positionCache EXCEPT ![n] =
                PositionEntry(TransformId, X_PB, X_GB, p_PB_G, Inertia_OB_G,
                              CB_G, COM_G, Mk)]
          /\ Turn("position", n, {<<"X_GB", parent[n]>>}, Own(n, Produced("position")))
    /\ UNCHANGED << velocityCache, dynamicsCache, spatialArrays, generalizedVectors >>

calcJointIndependentKinematicsVel(n, V_PB_G) ==
    SAdd(PhiTVec(positionCache[n].Phi, velocityCache[parent[n]].V_GB), V_PB_G)

Weld_realizeVelocity(n) ==
    /\ pass = "velocity" /\ n \in Welds \ Range(seq)
    /\ velocityCache' = [velocityCache EXCEPT ![n] =
            VelocityEntry(SpatialZero, SpatialZero,
                          calcJointIndependentKinematicsVel(n, SpatialZero))]
    /\ Turn("velocity", n, {<<"Phi", n>>, <<"V_GB", parent[n]>>},
            Own(n, Produced("velocity")))
    /\ UNCHANGED << positionCache, dynamicsCache, spatialArrays, generalizedVectors >>

calcJointIndependentDynamicsVel_allZero(n, VD_PB_G) ==
    [dynamicsCache[n] EXCEPT
        !.VD_PB_G = VD_PB_G,
        !.gyroscopicForce = SpatialZero,
        !.coriolisAcceleration = SpatialZero,
        !.totalCoriolisAcceleration = SpatialZero,
        !.centrifugalForces = SpatialZero,
        !.totalCentrifugalForces = SpatialZero]
calcJointIndependentDynamicsVel(n, VD_PB_G) ==
    LET w_GB == velocityCache[n].V_GB[1]
        v_GB == velocityCache[n].V_GB[2]
        gyro == SpatialVec(
                    Cross(w_GB, MatVec(positionCache[n].Inertia_OB_G, w_GB)),
                    VScale(NodeMass(n),
                           Cross(w_GB, Cross(w_GB, positionCache[n].CB_G))))
        w_GP == velocityCache[parent[n]].V_GB[1]
        v_GP == velocityCache[parent[n]].V_GB[2]
        cor == SAdd(SpatialVec(Vec3Zero, Cross(w_GP, VSub(v_GB, v_GP))), VD_PB_G)
        totalCor ==
            SAdd(PhiTVec(positionCache[n].Phi,
                         dynamicsCache[parent[n]].totalCoriolisAcceleration), cor)
        P == dynamicsCache[n].P
    IN  [dynamicsCache[n] EXCEPT
            !.VD_PB_G = VD_PB_G,
            !.gyroscopicForce = gyro,
            !.coriolisAcceleration = cor,
            !.totalCoriolisAcceleration = totalCor,
            !.centrifugalForces = SAdd(SMVec(P, cor), gyro),
            !.totalCentrifugalForces = SAdd(SMVec(P, totalCor), gyro)]

Weld_realizeDynamics_withoutP(n) ==
    /\ pass = "dynamics" /\ n \in Welds \ Range(seq)
    /\ dynamicsCache' = [dynamicsCache EXCEPT ![n] =
            calcJointIndependentDynamicsVel_allZero(n, SpatialZero)]
    /\ Turn("dynamics", n,
            {<<"V_GB", n>>, <<"Inertia_OB_G", n>>, <<"CB_G", n>>, <<"Phi", n>>,
             <<"V_GB", parent[n]>>, <<"totalCoriolisAcceleration", parent[n]>>},
            Own(n, Produced("dynamics")))
    /\ UNCHANGED << positionCache, velocityCache, spatialArrays, generalizedVectors >>

Weld_realizeDynamics(n) ==
    /\ pass = "dynamics" /\ n \in Welds \ Range(seq)
    /\ dynamicsCache' = [dynamicsCache EXCEPT ![n] =
            calcJointIndependentDynamicsVel(n, SpatialZero)]
    /\ Turn("dynamics", n,
            {<<"V_GB", n>>, <<"Inertia_OB_G", n>>, <<"CB_G", n>>, <<"Phi", n>>,
             <<"P", n>>, <<"V_GB", parent[n]>>,
             <<"totalCoriolisAcceleration", parent[n]>>},
            Own(n, Produced("dynamics")))
    /\ UNCHANGED << positionCache, velocityCache, spatialArrays, generalizedVectors >>

Weld_calcArticulatedBodyInertiasInward_readsParent(n) ==
    /\ pass = "abi" /\ n \in Welds \ Range(seq)
    /\ dynamicsCache' = [dynamicsCache EXCEPT ![n] =
            [@ EXCEPT !.P = SMAdd(positionCache[n].Mk, dynamicsCache[parent[n]].P),
                      !.TauBar = SpatialMatId,
                      !.Psi = PhiSM(positionCache[n].Phi, SpatialMatId)]]
    /\ Turn("abi", n, {<<"Mk", n>>, <<"Phi", n>>, <<"P", parent[n]>>},
            Own(n, Produced("abi")))
    /\ UNCHANGED << positionCache, velocityCache, spatialArrays, generalizedVectors >>

Weld_calcArticulatedBodyInertiasInward_ownInertiaOnly(n) ==
    /\ pass = "abi" /\ n \in Welds \ Range(seq)
    /\ dynamicsCache' = [dynamicsCache EXCEPT ![n] =
            [@ EXCEPT !.P = positionCache[n].Mk,
                      !.TauBar = SpatialMatId,
                      !.Psi = PhiSM(positionCache[n].Phi, SpatialMatId)]]
    /\ Turn("abi", n,
            {<<"Mk", n>>, <<"Phi", n>>} \cup Of(Children(n), {"TauBar", "P", "Phi"}),
            Own(n, Produced("abi")))
    /\ UNCHANGED << positionCache, velocityCache, spatialArrays, generalizedVectors >>

Weld_calcArticulatedBodyInertiasInward(n) ==
    /\ pass = "abi" /\ n \in Welds \ Range(seq)
    /\ LET term == [c \in Children(n) |->
                        SMPhiT(PhiSM(positionCache[c].Phi,
                                     SMMul(dynamicsCache[c].TauBar, dynamicsCache[c].P)),
                               positionCache[c].Phi)]
           P == SMAccumulate(positionCache[n].Mk, Children(n), term)
           TauBar == SpatialMatId
       IN dynamicsCache' = [dynamicsCache EXCEPT ![n] =
            [@ EXCEPT !.P = P, !.TauBar = TauBar,
                      !.Psi = PhiSM(positionCache[n].Phi, TauBar)]]
    /\ Turn("abi", n,
            {<<"Mk", n>>, <<"Phi", n>>} \cup Of(Children(n), {"TauBar", "P", "Phi"}),
            Own(n, Produced("abi")))
    /\ UNCHANGED << positionCache, velocityCache, spatialArrays, generalizedVectors >>

Weld_calcQDotDot(n) ==
    /\ pass = "qdotdot" /\ n \in Welds \ Range(seq)
    /\ Turn("qdotdot", n, {}, {})
    /\ UNCHANGED << caches, spatialArrays, generalizedVectors >>

Weld_calcAccel(n) ==
    /\ pass = "accel" /\ n \in Welds \ Range(seq)
    /\ Turn("accel", n, {}, {})
    /\ UNCHANGED << caches, spatialArrays, generalizedVectors >>

\* The inward sum over the children that both pass-1 operators share.
ChildrenZ(n, z0) ==
    SVAccumulate(z0, Children(n),
        [c \in Children(n) |->
            PhiVec(positionCache[c].Phi, SAdd(allZ[c], allGepsilon[c]))])

Weld_calcUDotPass1Inward_appliedMinusBias(n) ==
    /\ pass = "udot1" /\ n \in Welds \ Range(seq)
    /\ allZ' = [allZ EXCEPT ![n] =
            ChildrenZ(n, SSub(bodyForces[n], dynamicsCache[n].centrifugalForces))]
    /\ allGepsilon' = [allGepsilon EXCEPT ![n] = SpatialZero]
    /\ Turn("udot1", n,
            {<<"bodyForces", n>>, <<"centrifugalForces", n>>}
                \cup Of(Children(n), {"Phi", "allZ", "allGepsilon"}),
            Own(n, Produced("udot1")))
    /\ UNCHANGED << caches, allA_GB, allF, generalizedVectors >>

Weld_calcUDotPass1Inward(n) ==
    /\ pass = "udot1" /\ n \in Welds \ Range(seq)
    /\ allZ' = [allZ EXCEPT ![n] =
            ChildrenZ(n, SSub(dynamicsCache[n].centrifugalForces, bodyForces[n]))]
    /\ allGepsilon' = [allGepsilon EXCEPT ![n] = SpatialZero]
    /\ Turn("udot1", n,
            {<<"bodyForces", n>>, <<"centrifugalForces", n>>}
                \cup Of(Children(n), {"Phi", "allZ", "allGepsilon"}),
            Own(n, Produced("udot1")))
    /\ UNCHANGED << caches, allA_GB, allF, generalizedVectors >>

\* Shift the parent's A_GB outward; Ground's is taken as zero, not read.
A_GP(n) ==
    IF parent[n] = 0 THEN SpatialZero
    ELSE PhiTVec(positionCache[n].Phi, allA_GB[parent[n]])
A_GPReads(n) ==
    IF parent[n] = 0 THEN {} ELSE {<<"Phi", n>>, <<"allA_GB", parent[n]>>}

Weld_calcUDotPass2Outward_writesUDot(n) ==
    /\ pass = "udot2" /\ n \in Welds \ Range(seq)
    /\ allA_GB' = [allA_GB EXCEPT ![n] =
            SAdd(A_GP(n), dynamicsCache[n].coriolisAcceleration)]
    /\ allUDot' = [i \in DOMAIN allUDot |-> 0]
    /\ Turn("udot2", n, A_GPReads(n) \cup {<<"coriolisAcceleration", n>>},
            Own(n, Produced("udot2")) \cup {<<"allUDot", n>>})
    /\ UNCHANGED << caches, allZ, allGepsilon, allF, allEpsilon, allTau, qdotdot >>

Weld_calcUDotPass2Outward(n) ==
    /\ pass = "udot2" /\ n \in Welds \ Range(seq)
    /\ allA_GB' = [allA_GB EXCEPT ![n] =
            SAdd(A_GP(n), dynamicsCache[n].coriolisAcceleration)]
    /\ Turn("udot2", n, A_GPReads(n) \cup {<<"coriolisAcceleration", n>>},
            Own(n, Produced("udot2")))
    /\ UNCHANGED << caches, allZ, allGepsilon, allF, generalizedVectors >>

Weld_calcMInverseFPass1Inward(n) ==
    /\ pass = "minvf1" /\ n \in Welds \ Range(seq)
    /\ allZ' = [allZ EXCEPT ![n] = ChildrenZ(n, SpatialZero)]
    /\ allGepsilon' = [allGepsilon EXCEPT ![n] = SpatialZero]
    /\ Turn("minvf1", n, Of(Children(n), {"Phi", "allZ", "allGepsilon"}),
            Own(n, Produced("minvf1")))
    /\ UNCHANGED << caches, allA_GB, allF, generalizedVectors >>

Weld_calcMInverseFPass2Outward_withCoriolis(n) ==
    /\ pass = "minvf2" /\ n \in Welds \ Range(seq)
    /\ allA_GB' = [allA_GB EXCEPT ![n] =
            SAdd(A_GP(n), dynamicsCache[n].coriolisAcceleration)]
    /\ Turn("minvf2", n, A_GPReads(n) \cup {<<"coriolisAcceleration", n>>},
            Own(n, Produced("minvf2")))
    /\ UNCHANGED << caches, allZ, allGepsilon, allF, generalizedVectors >>

Weld_calcMInverseFPass2Outward(n) ==
    /\ pass = "minvf2" /\ n \in Welds \ Range(seq)
    /\ allA_GB' = [allA_GB EXCEPT ![n] = A_GP(n)]
    /\ Turn("minvf2", n, A_GPReads(n), Own(n, Produced("minvf2")))
    /\ UNCHANGED << caches, allZ, allGepsilon, allF, generalizedVectors >>

Weld_calcMAPass1Outward(n) ==
    /\ pass = "ma1" /\ n \in Welds \ Range(seq)
    /\ allA_GB' = [allA_GB EXCEPT ![n] = A_GP(n)]
    /\ Turn("ma1", n, A_GPReads(n), Own(n, Produced("ma1")))
    /\ UNCHANGED << caches, allZ, allGepsilon, allF, generalizedVectors >>

Weld_calcMAPass2Inward(n) ==
    /\ pass = "ma2" /\ n \in Welds \ Range(seq)
    /\ LET F == SVAccumulate(SpatialZero, Children(n),
                    [c \in Children(n) |-> PhiVec(positionCache[c].Phi, allF[c])])
       IN allF' = [allF EXCEPT ![n] = SAdd(F, SMVec(positionCache[n].Mk, allA_GB[n]))]
    /\ Turn("ma2", n,
            {<<"Mk", n>>, <<"allA_GB", n>>} \cup Of(Children(n), {"Phi", "allF"}),
            Own(n, Produced("ma2")))
    /\ UNCHANGED << caches, allZ, allGepsilon, allA_GB, generalizedVectors >>

\* RBNodeWeld declares no calcEquivalentJointForces: a Weld runs the one it
\* inherits from RBGroundBody, which stores Ground's body force in allZ[0].
Weld_calcEquivalentJointForces(n) ==
    /\ pass = "ejf" /\ n \in Welds \ Range(seq)
    /\ allZ' = [allZ EXCEPT ![0] = bodyForces[0]]
    /\ Turn("ejf", n, {<<"bodyForces", 0>>}, {<<"allZ", 0>>})
    /\ UNCHANGED << caches, allGepsilon, allA_GB, allF, generalizedVectors >>

\* ---- a node with a Free mobilizer (six mobilities), at its reference
\* configuration q = 0; its speeds u are the caller's.
MovingU ==
    {SpatialZero, SpatialVec(<<0, 0, 1>>, <<0, 0, 0>>),
     SpatialVec(<<1, 0, 0>>, <<0, 2, 0>>)}
Free_realizePosition(n) ==
    /\ pass = "position" /\ n \in mobilized \ Range(seq)
    /\ LET X_GP == positionCache[parent[n]].X_GB
           X_PB == XMul(NodeX_PF(n), NodeX_MB(n))
           X_GB == XMul(X_GP, X_PB)
           p_PB_G == MatVec(X_GP.R, X_PB.p)
           Inertia_OB_G == MatMul(MatMul(X_GB.R, NodeInertia_OB_B(n)), MatT(X_GB.R))
           CB_G == MatVec(X_GB.R, NodeCOM_B(n))
           COM_G == VAdd(X_GB.p, CB_G)
           offDiag == MatScale(NodeMass(n), crossMat(CB_G))
           Mk == SpatialMat(Inertia_OB_G, offDiag,
                            MatScale(-1, offDiag), MatScale(NodeMass(n), Mat33Id))
       IN /\ positionCache' = [positionCache EXCEPT ![n] =
                PositionEntry(TransformId, X_PB, X_GB, p_PB_G, Inertia_OB_G,
                              CB_G, COM_G, Mk)]
          /\ Turn("position", n, {<<"X_GB", parent[n]>>}, Own(n, Produced("position")))
    /\ UNCHANGED << velocityCache, dynamicsCache, spatialArrays, generalizedVectors >>

\* V_FM = H u with H the six unit columns; V_PB_G is V_FM re-expressed in
\* Ground and shifted from M's origin to B's.
Free_realizeVelocity(n, uu) ==
    /\ pass = "velocity" /\ n \in mobilized \ Range(seq)
    /\ LET R_GF == MatMul(positionCache[parent[n]].X_GB.R, NodeX_PF(n).R)
           w == MatVec(R_GF, uu[1])
           p_MB_G == MatVec(R_GF, NodeX_MB(n).p)
           V_PB_G == SpatialVec(w, VAdd(MatVec(R_GF, uu[2]), Cross(w, p_MB_G)))
       IN velocityCache' = [velocityCache EXCEPT ![n] =
            VelocityEntry(uu, V_PB_G, calcJointIndependentKinematicsVel(n, V_PB_G))]
    /\ Turn("velocity", n, {<<"X_GB", parent[n]>>, <<"Phi", n>>, <<"V_GB", parent[n]>>},
            Own(n, Produced("velocity")))
    /\ UNCHANGED << positionCache, dynamicsCache, spatialArrays, generalizedVectors >>

\* H is constant in F, so HDot u is the rotation of F in Ground only.
Free_realizeDynamics(n) ==
    /\ pass = "dynamics" /\ n \in mobilized \ Range(seq)
    /\ LET w_GP == velocityCache[parent[n]].V_GB[1]
           V == velocityCache[n].V_PB_G
           VD_PB_G == SpatialVec(Cross(w_GP, V[1]), Cross(w_GP, V[2]))
       IN dynamicsCache' = [dynamicsCache EXCEPT ![n] =
            calcJointIndependentDynamicsVel(n, VD_PB_G)]
    /\ Turn("dynamics", n,
            {<<"V_GB", n>>, <<"V_PB_G", n>>, <<"Inertia_OB_G", n>>, <<"CB_G", n>>,
             <<"Phi", n>>, <<"P", n>>, <<"V_GB", parent[n]>>,
             <<"totalCoriolisAcceleration", parent[n]>>},
            Own(n, Produced("dynamics")))
    /\ UNCHANGED << positionCache, velocityCache, spatialArrays, generalizedVectors >>

\* With six mobilities D = ~H P H is all of P: nothing of the body's inertia
\* is left for the parent, TauBar = 1 - G ~H = 0 and Psi = Phi TauBar = 0.
Free_calcArticulatedBodyInertiasInward(n) ==
    /\ pass = "abi" /\ n \in mobilized \ Range(seq)
    /\ LET term == [c \in Children(n) |->
                        SMPhiT(PhiSM(positionCache[c].Phi,
                                     SMMul(dynamicsCache[c].TauBar, dynamicsCache[c].P)),
                               positionCache[c].Phi)]
       IN dynamicsCache' = [dynamicsCache EXCEPT ![n] =
            [@ EXCEPT !.P = SMAccumulate(positionCache[n].Mk, Children(n), term),
                      !.TauBar = SpatialMatZero,
                      !.Psi = SpatialMatZero]]
    /\ Turn("abi", n,
            {<<"Mk", n>>} \cup Of(Children(n), {"Phi", "TauBar", "P"}),
            Own(n, Produced("abi")))
    /\ UNCHANGED << positionCache, velocityCache, spatialArrays, generalizedVectors >>

TreeIdle ==
    /\ parent = <<>> /\ pass = "none" /\ seq = <<>> /\ written = {} /\ badReads = {}
    /\ mobilized = {}
    /\ realized = {} /\ lastReads = {}
    /\ positionCache = <<>> /\ velocityCache = <<>> /\ dynamicsCache = <<>>
    /\ allZ = <<>> /\ allGepsilon = <<>> /\ allA_GB = <<>> /\ allF = <<>>
    /\ allUDot = <<>> /\ allEpsilon = <<>> /\ allTau = <<>> /\ qdotdot = <<>>

\* =========================================================================
\*                 JOINT MODELS: FITTING q AND u, X_FM FROM q
\* =========================================================================
\* Angles are counted in quarter turns, so that every rotation the model
\* meets has integer entries.  q has the 7 slots and u the 6 slots of the
\* largest joint; slot 0 is the joint's first.
QSlots == 0..6
USlots == 0..5
\* toQ / to1Q / toQVec3 / toQuat / toU / toUVec3: store x from slot off on.
Put(v, off, x) ==
    [i \in DOMAIN v |-> IF i >= off /\ i < off + Len(x) THEN x[i - off + 1] ELSE v[i]]
Get3(v, off) == <<v[off], v[off + 1], v[off + 2]>>
Get4(v, off) == <<v[off], v[off + 1], v[off + 2], v[off + 3]>>

\* std::atan2 on the coordinate axes, in quarter turns.
Atan2(y, x) ==
    CASE y = 0 /\ x >= 0 -> 0
      [] y = 0 /\ x < 0 -> 2
      [] x = 0 /\ y > 0 -> 1
      [] x = 0 /\ y < 0 -> -1
      [] OTHER -> NaN

\* Rotation from body-fixed x-y-z angles, and back (with the arbitrary split
\* theta3 = 0 where cos(theta2) = 0).
setRotationToBodyFixedXYZ(a) == MatMul(MatMul(RotX(a[1]), RotY(a[2])), RotZ(a[3]))
convertRotationToBodyFixedXYZ(R) ==
    LET Rsum == Sqrt((R[1][1] * R[1][1] + R[1][2] * R[1][2]
                      + R[2][3] * R[2][3] + R[3][3] * R[3][3]) \div 2)
        theta2 == Atan2(R[1][3], Rsum)
    IN  IF Rsum > 0
        THEN <<Atan2(0 - R[2][3], R[3][3]), theta2, Atan2(0 - R[1][2], R[1][1])>>
        ELSE IF R[1][3] > 0
        THEN <<Atan2(R[2][1] + R[3][2], R[2][2] - R[3][1]), theta2, 0>>
        ELSE <<Atan2(R[3][2] - R[2][1], R[2][2] + R[3][1]), theta2, 0>>
\* Body-fixed x-y angles of a rotation.
convertRotationToBodyFixedXY(R) == <<Atan2(R[3][2], R[2][2]), Atan2(R[1][3], R[1][1])>>

\* Quaternion(Vec4) normalizes; the rotation of a unit quaternion.
Quaternion(v) ==
    LET n == Sqrt(v[1] * v[1] + v[2] * v[2] + v[3] * v[3] + v[4] * v[4])
    IN  <<Div(v[1], n), Div(v[2], n), Div(v[3], n), Div(v[4], n)>>
setRotationFromQuaternion(e) ==
    << <<e[1]*e[1] + e[2]*e[2] - e[3]*e[3] - e[4]*e[4],
         2 * (e[2]*e[3] - e[1]*e[4]), 2 * (e[2]*e[4] + e[1]*e[3])>>,
       <<2 * (e[2]*e[3] + e[1]*e[4]),
         e[1]*e[1] - e[2]*e[2] + e[3]*e[3] - e[4]*e[4], 2 * (e[3]*e[4] - e[1]*e[2])>>,
       <<2 * (e[2]*e[4] - e[1]*e[3]), 2 * (e[3]*e[4] + e[1]*e[2]),
         e[1]*e[1] - e[2]*e[2] - e[3]*e[3] + e[4]*e[4]>> >>
convertRotationToQuaternion(R) ==
    LET tr == R[1][1] + R[2][2] + R[3][3]
        v == CASE tr >= R[1][1] /\ tr >= R[2][2] /\ tr >= R[3][3] ->
                    <<1 + tr, R[3][2] - R[2][3], R[1][3] - R[3][1], R[2][1] - R[1][2]>>
               [] R[1][1] >= R[2][2] /\ R[1][1] >= R[3][3] ->
                    <<R[3][2] - R[2][3], 1 - (tr - 2 * R[1][1]),
                      R[1][2] + R[2][1], R[1][3] + R[3][1]>>
               [] R[2][2] >= R[3][3] ->
                    <<R[1][3] - R[3][1], R[1][2] + R[2][1],
                      1 - (tr - 2 * R[2][2]), R[2][3] + R[3][2]>>
               [] OTHER ->
                    <<R[2][1] - R[1][2], R[1][3] + R[3][1],
                      R[2][3] + R[3][2], 1 - (tr - 2 * R[3][3])>>
        e == Quaternion(v)
    IN  IF v[1] < 0 THEN <<0 - e[1], 0 - e[2], 0 - e[3], 0 - e[4]>> ELSE e

\* The orientation held in q, as the joints with a quaternion option read it.
RotationOfQ(useEulerAngles, qq) ==
    IF useEulerAngles THEN setRotationToBodyFixedXYZ(Get3(qq, 0))
    ELSE setRotationFromQuaternion(Quaternion(Get4(qq, 0)))
OrientationToQ(useEulerAngles, R, qq) ==
    IF useEulerAngles THEN Put(qq, 0, convertRotationToBodyFixedXYZ(R))
    ELSE Put(qq, 0, convertRotationToQuaternion(R))

\* ---- one operator per joint class: its fit operators and its
\* calcAcrossJointTransform, applied to s = [q, u, X] with argument a (a
\* rotation, or a vector).
RBGroundBody(op, mv, s, a) == s

RBNodeTranslate(op, mv, s, a) ==
    CASE op = "setQToFitTranslation" -> [s EXCEPT !.q = Put(@, 0, a)]
      [] op = "setUToFitLinearVelocity" -> [s EXCEPT !.u = Put(@, 0, a)]
      [] op = "calcAcrossJointTransform" ->
            [s EXCEPT !.X = Transform(Mat33Id, Get3(s.q, 0))]
      [] OTHER -> s

RBNodeSlider(op, mv, s, a) ==
    CASE op = "setQToFitTranslation" -> [s EXCEPT !.q = Put(@, 0, <<a[1]>>)]
      [] op = "setUToFitLinearVelocity" -> [s EXCEPT !.u = Put(@, 0, <<a[1]>>)]
      [] op = "calcAcrossJointTransform" ->
            [s EXCEPT !.X = Transform(Mat33Id, <<s.q[0], 0, 0>>)]
      [] OTHER -> s

RBNodeTorsion(op, mv, s, a) ==
    CASE op = "setQToFitRotation" ->
            [s EXCEPT !.q = Put(@, 0, <<convertRotationToBodyFixedXYZ(a)[3]>>)]
      [] op = "setUToFitAngularVelocity" -> [s EXCEPT !.u = Put(@, 0, <<a[3]>>)]
      [] op = "calcAcrossJointTransform" ->
            [s EXCEPT !.X = Transform(RotZ(s.q[0]), Vec3Zero)]
      [] OTHER -> s

RBNodeCylinder(op, mv, s, a) ==
    CASE op = "setQToFitRotation" ->
            [s EXCEPT !.q = Put(@, 0, <<convertRotationToBodyFixedXYZ(a)[3]>>)]
      [] op = "setQToFitTranslation" -> [s EXCEPT !.q = Put(@, 1, <<a[3]>>)]
      [] op = "setUToFitAngularVelocity" -> [s EXCEPT !.u = Put(@, 0, <<a[3]>>)]
      [] op = "setUToFitLinearVelocity" -> [s EXCEPT !.u = Put(@, 1, <<a[3]>>)]
      [] op = "calcAcrossJointTransform" ->
            [s EXCEPT !.X = Transform(RotZ(s.q[0]), <<0, 0, s.q[1]>>)]
      [] OTHER -> s

RBNodeBendStretch(op, mv, s, a) ==
    CASE op = "setQToFitRotation" ->
            [s EXCEPT !.q = Put(@, 0, <<convertRotationToBodyFixedXYZ(a)[3]>>)]
      [] op = "setQToFitTranslation" ->
            LET d == Sqrt(a[1] * a[1] + a[2] * a[2])
            IN  IF d > 0
                THEN [s EXCEPT !.q = Put(@, 0, <<Atan2(a[2], a[1]), d>>)]
                ELSE [s EXCEPT !.q = Put(@, 1, <<0>>)]
      [] op = "setUToFitAngularVelocity" -> [s EXCEPT !.u = Put(@, 0, <<a[3]>>)]
      [] op = "setUToFitLinearVelocity" ->
            LET v_FM_M == MatVec(MatT(RotZ(s.q[0])), a)
                x == s.q[1]
            IN  IF Abs(x) = 0
                THEN [s EXCEPT !.u = Put(@, 1, <<v_FM_M[1]>>)]
                ELSE [s EXCEPT !.u = Put(@, 0, <<Div(v_FM_M[2], x), v_FM_M[1]>>)]
      [] op = "calcAcrossJointTransform" ->
            [s EXCEPT !.X = Transform(RotZ(s.q[0]),
                                      MatVec(RotZ(s.q[0]), <<s.q[1], 0, 0>>))]
      [] OTHER -> s

RBNodeUJoint(op, mv, s, a) ==
    CASE op = "setQToFitRotation" ->
            [s EXCEPT !.q = Put(@, 0, convertRotationToBodyFixedXY(a))]
      [] op = "setUToFitAngularVelocity" ->
            LET R_FM == MatMul(RotX(s.q[0]), RotY(s.q[1]))
                wyz_FM_M == MatVec(MatT(R_FM), <<0, a[2], a[3]>>)
            IN  [s EXCEPT !.u = Put(@, 0, <<a[1], wyz_FM_M[2]>>)]
      [] op = "calcAcrossJointTransform" ->
            [s EXCEPT !.X = Transform(MatMul(RotX(s.q[0]), RotY(s.q[1])), Vec3Zero)]
      [] OTHER -> s

RBNodePlanar_shifted(op, mv, s, a) ==
    CASE op = "setQToFitRotation" ->
            [s EXCEPT !.q = Put(@, 0, <<convertRotationToBodyFixedXYZ(a)[3]>>)]
      [] op = "setQToFitTranslation" -> [s EXCEPT !.q = Put(@, 0, <<a[1], a[2]>>)]
      [] op = "setUToFitAngularVelocity" -> [s EXCEPT !.u = Put(@, 0, <<a[3]>>)]
      [] op = "setUToFitLinearVelocity" -> [s EXCEPT !.u = Put(@, 1, <<a[1], a[2]>>)]
      [] op = "calcAcrossJointTransform" ->
            [s EXCEPT !.X = Transform(RotZ(s.q[0]), <<s.q[1], s.q[2], 0>>)]
      [] OTHER -> s

RBNodePlanar(op, mv, s, a) ==
    CASE op = "setQToFitRotation" ->
            [s EXCEPT !.q = Put(@, 0, <<convertRotationToBodyFixedXYZ(a)[3]>>)]
      [] op = "setQToFitTranslation" -> [s EXCEPT !.q = Put(@, 1, <<a[1], a[2]>>)]
      [] op = "setUToFitAngularVelocity" -> [s EXCEPT !.u = Put(@, 0, <<a[3]>>)]
      [] op = "setUToFitLinearVelocity" -> [s EXCEPT !.u = Put(@, 1, <<a[1], a[2]>>)]
      [] op = "calcAcrossJointTransform" ->
            [s EXCEPT !.X = Transform(RotZ(s.q[0]), <<s.q[1], s.q[2], 0>>)]
      [] OTHER -> s

RBNodeGimbal(op, mv, s, a) ==
    CASE op = "setQToFitRotation" ->
            [s EXCEPT !.q = Put(@, 0, convertRotationToBodyFixedXYZ(a))]
      [] op = "setUToFitAngularVelocity" -> [s EXCEPT !.u = Put(@, 0, a)]
      [] op = "calcAcrossJointTransform" ->
            [s EXCEPT !.X = Transform(setRotationToBodyFixedXYZ(Get3(s.q, 0)), Vec3Zero)]
      [] OTHER -> s

RBNodeBall(op, mv, s, a) ==
    CASE op = "setQToFitRotation" -> [s EXCEPT !.q = OrientationToQ(mv, a, @)]
      [] op = "setUToFitAngularVelocity" -> [s EXCEPT !.u = Put(@, 0, a)]
      [] op = "calcAcrossJointTransform" ->
            [s EXCEPT !.X = Transform(RotationOfQ(mv, s.q), Vec3Zero)]
      [] OTHER -> s

RBNodeFree(op, mv, s, a) ==
    CASE op = "setQToFitRotation" -> [s EXCEPT !.q = OrientationToQ(mv, a, @)]
      [] op = "setQToFitTranslation" ->
            [s EXCEPT !.q = Put(@, IF mv THEN 3 ELSE 4, a)]
      [] op = "setUToFitAngularVelocity" -> [s EXCEPT !.u = Put(@, 0, a)]
      [] op = "setUToFitLinearVelocity" -> [s EXCEPT !.u = Put(@, 3, a)]
      [] op = "calcAcrossJointTransform" ->
            [s EXCEPT !.X = Transform(RotationOfQ(mv, s.q),
                                      Get3(s.q, IF mv THEN 3 ELSE 4))]
      [] OTHER -> s

RBNodeLineOrientation(op, mv, s, a) ==
    CASE op = "setQToFitRotation" -> [s EXCEPT !.q = OrientationToQ(mv, a, @)]
      [] op = "setUToFitAngularVelocity" ->
            LET w_FM_M == MatVec(MatT(RotationOfQ(mv, s.q)), a)
            IN  [s EXCEPT !.u = Put(@, 0, <<w_FM_M[1], w_FM_M[2]>>)]
      [] op = "calcAcrossJointTransform" ->
            [s EXCEPT !.X = Transform(RotationOfQ(mv, s.q), Vec3Zero)]
      [] OTHER -> s

RBNodeFreeLine(op, mv, s, a) ==
    CASE op = "setQToFitRotation" -> [s EXCEPT !.q = OrientationToQ(mv, a, @)]
      [] op = "setQToFitTranslation" ->
            [s EXCEPT !.q = Put(@, IF mv THEN 3 ELSE 4, a)]
      [] op = "setUToFitAngularVelocity" ->
            LET w_FM_M == MatVec(MatT(RotationOfQ(mv, s.q)), a)
            IN  [s EXCEPT !.u = Put(@, 0, <<w_FM_M[1], w_FM_M[2]>>)]
      [] op = "setUToFitLinearVelocity" -> [s EXCEPT !.u = Put(@, 2, a)]
      [] op = "calcAcrossJointTransform" ->
            [s EXCEPT !.X = Transform(RotationOfQ(mv, s.q),
                                      Get3(s.q, IF mv THEN 3 ELSE 4))]
      [] OTHER -> s

\* The pitch is the translation along z per unit of angle (here per quarter
\* turn).
RBNodeScrew(op, mv, s, a) ==
    CASE op = "calcAcrossJointTransform" ->
            [s EXCEPT !.X = Transform(RotZ(s.q[0]), <<0, 0, s.q[0] * s.g.pitch>>)]

\* M's origin kept at the ellipsoid's centre.
RBNodeEllipsoid_centred(op, mv, s, a) ==
    CASE op = "calcAcrossJointTransform" ->
            [s EXCEPT !.X = Transform(RotationOfQ(mv, s.q), Vec3Zero)]
\* M's origin lies on the ellipsoid where its normal is M's z axis.
RBNodeEllipsoid(op, mv, s, a) ==
    CASE op = "calcAcrossJointTransform" ->
            LET R == RotationOfQ(mv, s.q)
                n == MatCol(R, 3)
            IN  [s EXCEPT !.X = Transform(R, <<s.g.semi[1] * n[1], s.g.semi[2] * n[2],
                                               s.g.semi[3] * n[3]>>)]

Joints ==
    {"Ground", "Weld", "Translate", "Slider", "Torsion", "Cylinder", "BendStretch",
     "Universal", "Planar", "Gimbal", "Ball", "Free", "LineOrientation", "FreeLine"}
QuaternionJoints == {"Ball", "Free", "LineOrientation", "FreeLine"}
\* Virtual dispatch on the node's class; Weld inherits Ground's operators.
Joint(jt, op, mv, s, a) ==
    CASE jt \in {"Ground", "Weld"} -> RBGroundBody(op, mv, s, a)
      [] jt = "Translate" -> RBNodeTranslate(op, mv, s, a)
      [] jt = "Slider" -> RBNodeSlider(op, mv, s, a)
      [] jt = "Torsion" -> RBNodeTorsion(op, mv, s, a)
      [] jt = "Cylinder" -> RBNodeCylinder(op, mv, s, a)
      [] jt = "BendStretch" -> RBNodeBendStretch(op, mv, s, a)
      [] jt = "Universal" -> RBNodeUJoint(op, mv, s, a)
      [] jt = "Planar" -> RBNodePlanar(op, mv, s, a)
      [] jt = "Gimbal" -> RBNodeGimbal(op, mv, s, a)
      [] jt = "Ball" -> RBNodeBall(op, mv, s, a)
      [] jt = "Free" -> RBNodeFree(op, mv, s, a)
      [] jt = "LineOrientation" -> RBNodeLineOrientation(op, mv, s, a)
      [] jt = "FreeLine" -> RBNodeFreeLine(op, mv, s, a)
      [] jt = "Screw" -> RBNodeScrew(op, mv, s, a)
      [] jt = "Ellipsoid" -> RBNodeEllipsoid(op, mv, s, a)
\* Fitting a whole transform: the rotation fit, then the translation fit.
setQToFitTransformImpl(jt, mv, s, X) ==
    Joint(jt, "setQToFitTranslation", mv, Joint(jt, "setQToFitRotation", mv, s, X.R), X.p)

\* ---- what a caller may ask for.  Rotations are quarter turns, half turns
\* about an axis where the joint stores a quaternion; a BendStretch is given
\* translations whose x-y part lies on an axis.
RotationInputs(jt, mv) ==
    IF jt \in QuaternionJoints /\ ~mv
    THEN {Mat33Id, RotX(2), RotZ(2)}
    ELSE {Mat33Id, RotZ(1), RotZ(2), RotX(1), RotY(1)}
TranslationInputs(jt) ==
    {p \in {Vec3Zero, <<-1, 0, 0>>, <<0, 2, 0>>, <<0, 0, 3>>, <<1, 2, 3>>} :
        jt = "BendStretch" => (p[1] = 0 \/ p[2] = 0)}
AngularVelocityInputs == {<<1, 2, 3>>, <<0, 0, -1>>}
LinearVelocityInputs == {<<4, 6, 8>>, <<0, -2, 0>>}

\* X_FM is the Transform the caller hands to calcAcrossJointTransform to be
\* filled in: a default-constructed (identity) one for every evaluation.
JointState == [q |-> q, u |-> u, X |-> X_FM, g |-> geom]
otherThanJoint == << gravityVars, evalVars, treeVars, jointType, useEuler, nodeVars >>
Fitted(op) == [op |-> op, fitted |-> FALSE, T |-> TransformId]

setQToFitRotation(R_FM) ==
    /\ q' = Joint(jointType, "setQToFitRotation", useEuler, JointState, R_FM).q
    /\ lastFit' = Fitted("setQToFitRotation")
    /\ X_FM' = TransformId
    /\ UNCHANGED << u, otherThanJoint >>

setQToFitTranslation(p_FM) ==
    /\ q' = Joint(jointType, "setQToFitTranslation", useEuler, JointState, p_FM).q
    /\ lastFit' = Fitted("setQToFitTranslation")
    /\ X_FM' = TransformId
    /\ UNCHANGED << u, otherThanJoint >>

setQToFitTransform(X) ==
    /\ q' = setQToFitTransformImpl(jointType, useEuler, JointState, X).q
    /\ lastFit' = [op |-> "setQToFitTransform", fitted |-> TRUE, T |-> X]
    /\ X_FM' = TransformId
    /\ UNCHANGED << u, otherThanJoint >>

setUToFitAngularVelocity(w_FM) ==
    /\ u' = Joint(jointType, "setUToFitAngularVelocity", useEuler, JointState, w_FM).u
    /\ lastFit' = Fitted("setUToFitAngularVelocity")
    /\ X_FM' = TransformId
    /\ UNCHANGED << q, otherThanJoint >>

setUToFitLinearVelocity(v_FM) ==
    /\ u' = Joint(jointType, "setUToFitLinearVelocity", useEuler, JointState, v_FM).u
    /\ lastFit' = Fitted("setUToFitLinearVelocity")
    /\ X_FM' = TransformId
    /\ UNCHANGED << q, otherThanJoint >>

calcAcrossJointTransform ==
    /\ X_FM' = Joint(jointType, "calcAcrossJointTransform", useEuler, JointState, Vec3Zero).X
    /\ lastFit' = [lastFit EXCEPT !.op = "calcAcrossJointTransform"]
    /\ UNCHANGED << q, u, otherThanJoint >>

\* No Custom implementation, no error estimate, no flag returned yet.
NoImpl == [nu |-> 0, nq |-> 0, nAngles |-> 0]
\* What createRigidBodyNode was asked for and what it returned.
Request(jt, im, res) == [type |-> jt, impl |-> im, result |-> res]
QuatIdle == impl = NoImpl /\ qErrest = <<>> /\ returned = FALSE
BuilderIdle ==
    /\ nodes = <<>> /\ nextUSlot = 0 /\ nextQSlot = 0
    /\ created = Request("none", NoImpl, "none") /\ ndebug = FALSE /\ halted = FALSE
NoGeom == [pitch |-> 0, semi |-> Vec3Zero]
JacobianIdle == geom = NoGeom /\ H_FM = <<>> /\ HDot_FM = <<>>
\* No raw operator called yet.
NoCall == [op |-> "none", matrixOnRight |-> FALSE, in |-> <<>>, chained |-> FALSE]
CustomIdle == implStage = StageEmpty /\ realizeLog = <<>>
KinIdle == sbStage = StageEmpty /\ outBuf = <<>> /\ call = NoCall /\ CustomIdle
NodeIdle == QuatIdle /\ BuilderIdle /\ JacobianIdle /\ KinIdle

JointIdle ==
    /\ jointType = "Ground" /\ useEuler = FALSE
    /\ q = [i \in QSlots |-> 0] /\ u = [i \in USlots |-> 0]
    /\ X_FM = TransformId /\ lastFit = Fitted("none")
    /\ NodeIdle

\* =========================================================================
\*        QUATERNIONS: NORMALIZATION AND CHANGE OF REPRESENTATION
\* =========================================================================
Vec4NaN == <<NaN, NaN, NaN, NaN>>
Dot4(a, b) ==
    Add(Add(Mul(a[1], b[1]), Mul(a[2], b[2])), Add(Mul(a[3], b[3]), Mul(a[4], b[4])))
Norm4(v) == Sqrt(Dot4(v, v))
Scale4(v, s) == <<Mul(v[1], s), Mul(v[2], s), Mul(v[3], s), Mul(v[4], s)>>
Div4(v, n) == <<Div(v[1], n), Div(v[2], n), Div(v[3], n), Div(v[4], n)>>
Sub4(a, b) == <<Sub(a[1], b[1]), Sub(a[2], b[2]), Sub(a[3], b[3]), Sub(a[4], b[4])>>
IsFinite4(v) == \A i \in 1..4 : ~IsNaN(v[i])

\* The classes whose orientation may be held as a quaternion; a Custom node
\* is one of them when its implementation reports four angle slots.
QuaternionCapable == {"Ball", "Ellipsoid", "Free", "LineOrientation", "FreeLine", "Custom"}
QuatNodes == {"Ground", "Weld"} \cup QuaternionCapable
CustomImpls ==
    {[nu |-> 6, nq |-> 7, nAngles |-> 4], [nu |-> 3, nq |-> 4, nAngles |-> 4],
     [nu |-> 3, nq |-> 3, nAngles |-> 3]}
isUsingQuaternion(jt, im, mv) ==
    jt \in QuaternionCapable /\ ~mv /\ (jt = "Custom" => im.nAngles = 4)

\* The normalization without the correction of the error estimate.
enforceQuaternionConstraints_noProjection(jt, im, mv, qq, qe) ==
    IF jt \in {"Ground", "Weld"} \/ mv \/ (jt = "Custom" /\ im.nAngles # 4)
    THEN [ret |-> FALSE, q |-> qq, qErrest |-> qe]
    ELSE [ret |-> TRUE, q |-> Put(qq, 0, Div4(Get4(qq, 0), Norm4(Get4(qq, 0)))),
          qErrest |-> qe]
\* RBGroundBody (and Weld) return false; Ball, Ellipsoid, Free,
\* LineOrientation and FreeLine share one body, Custom adds the test on
\* nAngles.  The result is the returned flag with q and qErrest as left.
enforceQuaternionConstraints(jt, im, mv, qq, qe) ==
    IF jt \in {"Ground", "Weld"} \/ mv \/ (jt = "Custom" /\ im.nAngles # 4)
    THEN [ret |-> FALSE, q |-> qq, qErrest |-> qe]
    ELSE LET quat == Div4(Get4(qq, 0), Norm4(Get4(qq, 0)))
             qerr == Get4(qe, 0)
         IN  [ret |-> TRUE, q |-> Put(qq, 0, quat),
              qErrest |-> IF DOMAIN qe # {}
                          THEN Put(qe, 0, Sub4(qerr, Scale4(quat, Dot4(qerr, quat))))
                          ELSE qe]

\* Rotation(Quaternion(v)).convertRotationToBodyFixedXYZ() and
\* setRotationToBodyFixedXYZ(a).convertRotationToQuaternion(); a NaN in the
\* argument, or the 0/0 of normalizing a zero quaternion, gives NaN.
AnglesOfQuaternion(v) ==
    IF ~IsFinite4(v) \/ v = <<0, 0, 0, 0>> THEN Vec3NaN
    ELSE convertRotationToBodyFixedXYZ(setRotationFromQuaternion(Quaternion(v)))
QuaternionOfAngles(a) ==
    IF ~VIsFinite(a) THEN Vec4NaN
    ELSE convertRotationToQuaternion(setRotationToBodyFixedXYZ(a))

convertToEulerAngles(jt, im, inputQ, outputQ) ==
    LET angles == AnglesOfQuaternion(Get4(inputQ, 0))
    IN  CASE jt \in {"Ground", "Weld"} -> outputQ
          [] jt \in {"Ball", "Ellipsoid"} ->
                Put(Put(outputQ, 0, <<0, 0, 0, 0>>), 0, angles)
          [] jt \in {"Free", "FreeLine"} ->
                Put(Put(Put(outputQ, 4, Vec3Zero), 3, Get3(inputQ, 4)), 0, angles)
          [] jt = "LineOrientation" ->
                Put(Put(Put(outputQ, 4, Vec3Zero), 2, Get3(inputQ, 3)), 0, angles)
          [] jt = "Custom" ->
                IF im.nAngles # 4
                THEN [i \in QSlots |-> IF i < im.nq THEN inputQ[i] ELSE outputQ[i]]
                ELSE [i \in QSlots |->
                        IF i < 3 THEN angles[i + 1]
                        ELSE IF i < im.nq - 1 THEN inputQ[i + 1]
                        ELSE IF i = im.nq - 1 THEN 0
                        ELSE outputQ[i]]

\* Moving the coordinates that follow the angles without the shift.
convertToQuaternions_unshifted(jt, im, inputQ, outputQ) ==
    [i \in QSlots |-> IF i < 4 THEN QuaternionOfAngles(Get3(inputQ, 0))[i + 1]
                      ELSE inputQ[i]]
convertToQuaternions(jt, im, inputQ, outputQ) ==
    LET quat == QuaternionOfAngles(Get3(inputQ, 0))
    IN  CASE jt \in {"Ground", "Weld"} -> outputQ
          [] jt \in {"Ball", "Ellipsoid"} -> Put(outputQ, 0, quat)
          [] jt \in {"Free", "FreeLine", "LineOrientation"} ->
                Put(Put(outputQ, 4, Get3(inputQ, 3)), 0, quat)
          [] jt = "Custom" ->
                IF im.nAngles # 4
                THEN [i \in QSlots |-> IF i < im.nq THEN inputQ[i] ELSE outputQ[i]]
                ELSE [i \in QSlots |->
                        IF i < 4 THEN quat[i + 1]
                        ELSE IF i < im.nq THEN inputQ[i - 1]
                        ELSE outputQ[i]]

\* ---- what a caller may store in q and hand over as error estimate: unit,
\* non-unit and zero quaternions along an axis, half-turn Euler angles,
\* translational coordinates, and an empty or a full error estimate.
QuaternionInputs ==
    {<<1, 0, 0, 0>>, <<2, 0, 0, 0>>, <<0, -3, 0, 0>>, <<0, 0, 0, 2>>,
     <<0, 0, -1, 0>>, <<0, 0, 0, 0>>}
AngleInputs == {<<0, 0, 0>>, <<2, 0, 0>>, <<0, 0, 2>>}
CoordinateInputs(mv) == IF mv THEN {<<8, 9, 10>>, <<0, 1, 0>>} ELSE {<<5, 6, 7>>, <<0, -2, 0>>}
QInputs(mv) ==
    IF mv
    THEN {Put(Put([i \in QSlots |-> 0], 0, a), 3, c) :
            a \in AngleInputs, c \in CoordinateInputs(mv)}
    ELSE {Put(Put([i \in QSlots |-> 0], 0, e), 4, c) :
            e \in QuaternionInputs, c \in CoordinateInputs(mv)}
QErrestInputs ==
    {<<>>, [i \in QSlots |-> i + 1], [i \in QSlots |-> IF i = 1 THEN 0 ELSE 2 - i]}
\* An output vector as its caller sized it, before any node wrote into it.
FreshQ == [i \in QSlots |-> 50 + i]

builderVars == << nodes, nextUSlot, nextQSlot, created, ndebug, halted >>
jacobianVars == << geom, H_FM, HDot_FM >>
customVars == << implStage, realizeLog >>
kinVars == << sbStage, outBuf, call, customVars >>
otherThanQ ==
    << gravityVars, evalVars, treeVars, jointType, u, X_FM, impl, builderVars, jacobianVars,
       kinVars >>

\* The caller stores coordinates and an error estimate of its own.
updQ(v, e) ==
    /\ q' = v
    /\ qErrest' = e
    /\ lastFit' = Fitted("updQ")
    /\ UNCHANGED << useEuler, returned, otherThanQ >>

enforceQuaternionConstraintsCall ==
    LET r == enforceQuaternionConstraints(jointType, impl, useEuler, q, qErrest)
    IN  /\ q' = r.q
        /\ qErrest' = r.qErrest
        /\ returned' = r.ret
        /\ lastFit' = Fitted("enforceQuaternionConstraints")
        /\ UNCHANGED << useEuler, otherThanQ >>

\* The model switches to Euler angles and every node converts its q into the
\* new State's vector; and back.
convertToEulerAnglesCall ==
    /\ ~useEuler
    /\ q' = convertToEulerAngles(jointType, impl, q, FreshQ)
    /\ useEuler' = TRUE
    /\ lastFit' = Fitted("convertToEulerAngles")
    /\ UNCHANGED << qErrest, returned, otherThanQ >>

convertToQuaternionsCall ==
    /\ useEuler
    /\ q' = convertToQuaternions(jointType, impl, q, FreshQ)
    /\ useEuler' = FALSE
    /\ lastFit' = Fitted("convertToQuaternions")
    /\ UNCHANGED << qErrest, returned, otherThanQ >>


\* =========================================================================
\*                  CREATING NODES AND HANDING OUT SLOTS
\* =========================================================================
AllJoints == Joints \cup {"Screw", "Ellipsoid", "Custom"}
\* The template argument of RigidBodyNodeSpec<dof>; RBGroundBody::getDOF.
getDOF(jt, im) ==
    CASE jt \in {"Ground", "Weld"} -> 0
      [] jt \in {"Slider", "Torsion", "Screw"} -> 1
      [] jt \in {"Cylinder", "BendStretch", "Universal", "LineOrientation"} -> 2
      [] jt \in {"Translate", "Planar", "Gimbal", "Ball", "Ellipsoid"} -> 3
      [] jt = "FreeLine" -> 5
      [] jt = "Free" -> 6
      [] jt = "Custom" -> im.nu
\* Every class holding exactly as many q as it has mobilities.
getMaxNQ_sameAsDOF(jt, im) == getDOF(jt, im)
getMaxNQ(jt, im) ==
    CASE jt \in {"Ground", "Weld"} -> 0
      [] jt \in {"Ball", "Ellipsoid", "LineOrientation"} -> 4
      [] jt \in {"Free", "FreeLine"} -> 7
      [] jt = "Custom" -> im.nq
      [] OTHER -> getDOF(jt, im)
getNUInUse(jt, im, mv) == getDOF(jt, im)
getNQInUse(jt, im, mv) ==
    CASE jt \in {"Ground", "Weld"} -> 0
      [] jt \in {"Ball", "Ellipsoid", "LineOrientation"} -> IF mv THEN 3 ELSE 4
      [] jt \in {"Free", "FreeLine"} -> IF mv THEN 6 ELSE 7
      [] jt = "Custom" -> IF im.nAngles = 4 /\ mv THEN im.nq - 1 ELSE im.nq
      [] OTHER -> getDOF(jt, im)

\* Implementations a Custom mobilizer may be given: NU within 1..6, and NU
\* outside of it.
LegalImpls == CustomImpls \cup {[nu |-> 1, nq |-> 1, nAngles |-> 1]}
IllegalImpls ==
    {[nu |-> 0, nq |-> 0, nAngles |-> 0], [nu |-> -1, nq |-> 1, nAngles |-> 0],
     [nu |-> 7, nq |-> 7, nAngles |-> 4]}
ImplsOf(jt) == IF jt = "Custom" THEN LegalImpls \cup IllegalImpls ELSE {NoImpl}

\* The node as constructed.  RBGroundBody's constructor (Weld's base) sets
\* its indices to 0 and is not given the counters; every other constructor
\* calls updateSlots, which takes the node's first slots from the counters
\* and advances them by the slots the node owns.
Node(jt, im, uIx, qIx) == [type |-> jt, impl |-> im, uIndex |-> uIx, qIndex |-> qIx]
updateSlots(jt, im) ==
    /\ nodes' = Append(nodes, Node(jt, im, nextUSlot, nextQSlot))
    /\ nextUSlot' = nextUSlot + getDOF(jt, im)
    /\ nextQSlot' = nextQSlot + getMaxNQ(jt, im)

otherThanBuilder ==
    << gravityVars, evalVars, treeVars, jointType, useEuler, q, u, X_FM, lastFit,
       impl, qErrest, returned, ndebug, geom, H_FM, HDot_FM, kinVars >>

\* MobilizedBody::<type>Impl::createRigidBodyNode; Ground is created first.
\* A Custom implementation with NU outside 1..6 reaches 'default:', whose
\* assert aborts the process unless NDEBUG is defined, and then returns 0.
createRigidBodyNode(jt, im) ==
    /\ ~halted /\ Len(nodes) < NumNodes
    /\ (jt = "Ground") <=> (nodes = <<>>)
    /\ CASE jt \in {"Ground", "Weld"} ->
                /\ nodes' = Append(nodes, Node(jt, im, 0, 0))
                /\ created' = Request(jt, im, "node")
                /\ UNCHANGED << nextUSlot, nextQSlot, halted >>
         [] jt = "Custom" /\ im.nu \notin 1..6 ->
                /\ halted' = ~ndebug
                /\ created' = Request(jt, im, IF ndebug THEN "null" ELSE "none")
                /\ UNCHANGED << nodes, nextUSlot, nextQSlot >>
         [] OTHER ->
                /\ updateSlots(jt, im)
                /\ created' = Request(jt, im, "node")
                /\ UNCHANGED halted
    /\ UNCHANGED otherThanBuilder

\* =========================================================================
\*             THE ACROSS-JOINT VELOCITY JACOBIAN H AND ITS DERIVATIVE
\* =========================================================================
\* H is held as the sequence of its columns, one spatial vector per mobility.
Ex == <<1, 0, 0>>
Ey == <<0, 1, 0>>
Ez == <<0, 0, 1>>
\* Assigning H(0), H(1), ... of the matrix handed in.
Columns(Hin, cols) == [i \in DOMAIN Hin |-> IF i <= Len(cols) THEN cols[i] ELSE Hin[i]]
Uninitialized(n) == [i \in 1..n |-> SpatialNaN]
\* The Custom implementation offered: multiplyByHMatrix maps the i-th unit
\* vector to a rotation about, then a translation along, a coordinate axis,
\* and multiplyByHDotMatrix maps it to zero.
ImplH(i) ==
    CASE i = 1 -> SpatialVec(Ex, Vec3Zero) [] i = 2 -> SpatialVec(Ey, Vec3Zero)
      [] i = 3 -> SpatialVec(Ez, Vec3Zero) [] i = 4 -> SpatialVec(Vec3Zero, Ex)
      [] i = 5 -> SpatialVec(Vec3Zero, Ey) [] i = 6 -> SpatialVec(Vec3Zero, Ez)

\* Free's Jacobian with the translational columns left as handed in.
calcAcrossJointVelocityJacobian_rotationsOnly(jt, g, im, X, Hin) ==
    Columns(Hin, <<SpatialVec(Ex, Vec3Zero), SpatialVec(Ey, Vec3Zero),
                   SpatialVec(Ez, Vec3Zero)>>)
\* X is X_F0M0 as found in the position cache.
calcAcrossJointVelocityJacobian(jt, g, im, X, Hin) ==
    LET Mx_F == MatCol(X.R, 1)
        My_F == MatCol(X.R, 2)
        n == MatCol(X.R, 3)
    IN  Columns(Hin,
          CASE jt = "Translate" ->
                <<SpatialVec(Vec3Zero, Ex), SpatialVec(Vec3Zero, Ey), SpatialVec(Vec3Zero, Ez)>>
            [] jt = "Slider" -> <<SpatialVec(Vec3Zero, Ex)>>
            [] jt = "Torsion" -> <<SpatialVec(Ez, Vec3Zero)>>
            [] jt = "Screw" -> <<SpatialVec(Ez, <<0, 0, g.pitch>>)>>
            [] jt = "Cylinder" -> <<SpatialVec(Ez, Vec3Zero), SpatialVec(Vec3Zero, Ez)>>
            [] jt = "BendStretch" ->
                <<SpatialVec(Ez, Cross(Ez, X.p)), SpatialVec(Vec3Zero, Mx_F)>>
            [] jt = "Universal" -> <<SpatialVec(Ex, Vec3Zero), SpatialVec(My_F, Vec3Zero)>>
            [] jt = "Planar" ->
                <<SpatialVec(Ez, Vec3Zero), SpatialVec(Vec3Zero, Ex), SpatialVec(Vec3Zero, Ey)>>
            [] jt \in {"Gimbal", "Ball"} ->
                <<SpatialVec(Ex, Vec3Zero), SpatialVec(Ey, Vec3Zero), SpatialVec(Ez, Vec3Zero)>>
            [] jt = "Ellipsoid" ->
                <<SpatialVec(Ex, <<0, 0 - n[3] * g.semi[2], n[2] * g.semi[3]>>),
                  SpatialVec(Ey, <<n[3] * g.semi[1], 0, 0 - n[1] * g.semi[3]>>),
                  SpatialVec(Ez, <<0 - n[2] * g.semi[1], n[1] * g.semi[2], 0>>)>>
            [] jt = "Free" ->
                <<SpatialVec(Ex, Vec3Zero), SpatialVec(Ey, Vec3Zero), SpatialVec(Ez, Vec3Zero),
                  SpatialVec(Vec3Zero, Ex), SpatialVec(Vec3Zero, Ey), SpatialVec(Vec3Zero, Ez)>>
            [] jt = "LineOrientation" ->
                <<SpatialVec(Mx_F, Vec3Zero), SpatialVec(My_F, Vec3Zero)>>
            [] jt = "FreeLine" ->
                <<SpatialVec(Mx_F, Vec3Zero), SpatialVec(My_F, Vec3Zero),
                  SpatialVec(Vec3Zero, Ex), SpatialVec(Vec3Zero, Ey), SpatialVec(Vec3Zero, Ez)>>
            [] jt = "Custom" -> [i \in 1..im.nu |-> ImplH(i)])

\* findV_F0M0: the cross-joint velocity H*u of the velocity cache.
RECURSIVE HTimesU(_, _, _)
HTimesU(H, uu, k) ==
    IF k = 0 THEN SpatialZero
    ELSE SAdd(HTimesU(H, uu, k - 1),
              SpatialVec(VScale(uu[k - 1], H[k][1]), VScale(uu[k - 1], H[k][2])))
V_F0M0(jt, g, im, X, uu) ==
    LET H == calcAcrossJointVelocityJacobian(jt, g, im, X, Uninitialized(getDOF(jt, im)))
    IN  HTimesU(H, uu, Len(H))

\* V is V_F0M0 as found in the velocity cache.
calcAcrossJointVelocityJacobianDot(jt, g, im, X, V, HDin) ==
    LET Mx_F == MatCol(X.R, 1)
        My_F == MatCol(X.R, 2)
        n == MatCol(X.R, 3)
        w_FM == V[1]
        v_FM == V[2]
        ndot == Cross(w_FM, n)
    IN  Columns(HDin,
          CASE jt \in {"Slider", "Torsion", "Screw"} -> <<SpatialZero>>
            [] jt = "Cylinder" -> <<SpatialZero, SpatialZero>>
            [] jt \in {"Translate", "Planar", "Gimbal", "Ball"} ->
                <<SpatialZero, SpatialZero, SpatialZero>>
            [] jt = "Free" ->
                <<SpatialZero, SpatialZero, SpatialZero, SpatialZero, SpatialZero, SpatialZero>>
            [] jt = "BendStretch" ->
                <<SpatialVec(Vec3Zero, Cross(Ez, v_FM)), SpatialVec(Vec3Zero, Cross(w_FM, Mx_F))>>
            [] jt = "Universal" -> <<SpatialZero, SpatialVec(Cross(w_FM, My_F), Vec3Zero)>>
            [] jt = "Ellipsoid" ->
                <<SpatialVec(Vec3Zero, <<0, 0 - ndot[3] * g.semi[2], ndot[2] * g.semi[3]>>),
                  SpatialVec(Vec3Zero, <<ndot[3] * g.semi[1], 0, 0 - ndot[1] * g.semi[3]>>),
                  SpatialVec(Vec3Zero, <<0 - ndot[2] * g.semi[1], ndot[1] * g.semi[2], 0>>)>>
            [] jt = "LineOrientation" ->
                <<SpatialVec(Cross(w_FM, Mx_F), Vec3Zero), SpatialVec(Cross(w_FM, My_F), Vec3Zero)>>
            [] jt = "FreeLine" ->
                <<SpatialVec(Cross(w_FM, Mx_F), Vec3Zero), SpatialVec(Cross(w_FM, My_F), Vec3Zero),
                  SpatialZero, SpatialZero, SpatialZero>>
            [] jt = "Custom" -> [i \in 1..im.nu |-> SpatialZero])

\* The classes that override the computation of the reversed mobilizer's H.
SimpleMobilizers == {"Translate", "Slider", "Torsion", "Screw", "Cylinder"}
\* The reversed H taken to be H itself.
calcReverseMobilizerH_FM_sameAsForward(jt, g, im, X, Hin) ==
    calcAcrossJointVelocityJacobian(jt, g, im, X, Hin)
calcReverseMobilizerH_FM(jt, g, im, X, Hin) ==
    Columns(Hin,
      CASE jt = "Translate" ->
            <<SpatialVec(Vec3Zero, <<-1, 0, 0>>), SpatialVec(Vec3Zero, <<0, -1, 0>>),
              SpatialVec(Vec3Zero, <<0, 0, -1>>)>>
        [] jt = "Slider" -> <<SpatialVec(Vec3Zero, <<-1, 0, 0>>)>>
        [] jt = "Torsion" -> <<SpatialVec(<<0, 0, -1>>, Vec3Zero)>>
        [] jt = "Screw" -> <<SpatialVec(<<0, 0, -1>>, <<0, 0, 0 - g.pitch>>)>>
        [] jt = "Cylinder" ->
            <<SpatialVec(<<0, 0, -1>>, Vec3Zero), SpatialVec(Vec3Zero, <<0, 0, -1>>)>>)
calcReverseMobilizerHDot_FM(jt, g, im, X, V, HDin) ==
    Columns(HDin,
      CASE jt \in {"Slider", "Torsion", "Screw"} -> <<SpatialZero>>
        [] jt = "Cylinder" -> <<SpatialZero, SpatialZero>>
        [] jt = "Translate" -> <<SpatialZero, SpatialZero, SpatialZero>>)

\* ---- what the caller may store in q and u: angles in quarter turns,
\* lengths, and unit quaternions where a quaternion is in use.
MobilizerJoints == AllJoints \ {"Ground", "Weld"}
GeomsOf(jt) ==
    CASE jt = "Screw" -> {[pitch |-> 2, semi |-> Vec3Zero], [pitch |-> -1, semi |-> Vec3Zero]}
      [] jt = "Ellipsoid" ->
            {[pitch |-> 0, semi |-> <<1, 1, 1>>], [pitch |-> 0, semi |-> <<2, 3, 4>>]}
      [] OTHER -> {NoGeom}
MobilizerQInputs(jt, im, mv) ==
    IF isUsingQuaternion(jt, im, mv)
    THEN {Put(Put([i \in QSlots |-> 0], 0, e), 4, c) :
            e \in {<<1, 0, 0, 0>>, <<0, 1, 0, 0>>, <<0, 0, 0, 2>>}, c \in {<<5, 6, 7>>}}
    ELSE {[i \in QSlots |-> 0],
          [i \in QSlots |-> <<1, 2, 3, 1, 2, 3, 0>>[i + 1]],
          [i \in QSlots |-> <<2, -1, 0, 3, 0, 1, 0>>[i + 1]]}
MobilizerUInputs ==
    {[i \in USlots |-> 0], [i \in USlots |-> i + 1],
     [i \in USlots |-> <<0, -1, 0, 2, 0, 0>>[i + 1]]}

otherThanJacobian ==
    << gravityVars, evalVars, treeVars, jointType, useEuler, q, u, X_FM,
       impl, qErrest, returned, builderVars, geom, kinVars >>

updU(v) ==
    /\ u' = v
    /\ lastFit' = Fitted("updU")
    /\ UNCHANGED << q, X_FM, otherThanJoint >>

calcAcrossJointVelocityJacobianCall ==
    /\ H_FM' = calcAcrossJointVelocityJacobian(jointType, geom, impl, X_FM,
                    Uninitialized(getDOF(jointType, impl)))
    /\ lastFit' = Fitted("calcAcrossJointVelocityJacobian")
    /\ UNCHANGED << HDot_FM, otherThanJacobian >>

calcAcrossJointVelocityJacobianDotCall ==
    /\ HDot_FM' = calcAcrossJointVelocityJacobianDot(jointType, geom, impl, X_FM,
                    V_F0M0(jointType, geom, impl, X_FM, u),
                    Uninitialized(getDOF(jointType, impl)))
    /\ lastFit' = Fitted("calcAcrossJointVelocityJacobianDot")
    /\ UNCHANGED << H_FM, otherThanJacobian >>

calcReverseMobilizerH_FMCall ==
    /\ jointType \in SimpleMobilizers
    /\ H_FM' = calcReverseMobilizerH_FM(jointType, geom, impl, X_FM,
                    Uninitialized(getDOF(jointType, impl)))
    /\ lastFit' = Fitted("calcReverseMobilizerH_FM")
    /\ UNCHANGED << HDot_FM, otherThanJacobian >>

calcReverseMobilizerHDot_FMCall ==
    /\ jointType \in SimpleMobilizers
    /\ HDot_FM' = calcReverseMobilizerHDot_FM(jointType, geom, impl, X_FM,
                    V_F0M0(jointType, geom, impl, X_FM, u),
                    Uninitialized(getDOF(jointType, impl)))
    /\ lastFit' = Fitted("calcReverseMobilizerHDot_FM")
    /\ UNCHANGED << H_FM, otherThanJacobian >>

\* =========================================================================
\*        THE RAW OPERATORS qdot = N u, THEIR INVERSE AND THEIR STAGES
\* =========================================================================
\* Matrices of any shape, as sequences of rows.
RECURSIVE DotUpTo(_, _, _)
DotUpTo(a, b, n) == IF n = 0 THEN 0 ELSE Add(DotUpTo(a, b, n - 1), Mul(a[n], b[n]))
MatVecN(M, v) == [i \in 1..Len(M) |-> DotUpTo(M[i], v, Len(v))]
TransposeN(M) == [j \in 1..Len(M[1]) |-> [i \in 1..Len(M) |-> M[i][j]]]
RowMatN(r, M) == MatVecN(TransposeN(M), r)
MatMulN(A, B) == [i \in 1..Len(A) |-> RowMatN(A[i], B)]
getSubMat(M, r, c) == [i \in 1..r |-> [j \in 1..c |-> M[i][j]]]
VAddN(a, b) == [i \in 1..Len(a) |-> Add(a[i], b[i])]
\* Vec<n>::getAs(v + off)
GetN(v, off, n) == [i \in 1..n |-> v[off + i - 1]]
\* x/2, exact (the quaternions and speeds offered are even).
Half(x) == IF IsNaN(x) THEN NaN ELSE CHOOSE h \in (0 - Abs(x))..Abs(x) : 2 * h = x

\* Rotation::calcQBlockForBodyXYZInBodyFrame: qdot = E(q) * w_B for body-fixed
\* x-y-z angles q and the angular velocity w_B expressed in the body frame.
calcQBlockForBodyXYZInBodyFrame(a) ==
    LET s1 == Sin4(a[2])  c1 == Cos4(a[2])
        s2 == Sin4(a[3])  c2 == Cos4(a[3])
        ooc1 == Div(1, c1)
    IN  << <<Mul(c2, ooc1), Neg(Mul(s2, ooc1)), 0>>,
           <<s2, c2, 0>>,
           <<Neg(Mul(s1 * c2, ooc1)), Mul(s1 * s2, ooc1), 1>> >>
\* Rotation::calcQInvBlockForBodyXYZInBodyFrame: w_B = EInv(q) * qdot.
calcQInvBlockForBodyXYZInBodyFrame(a) ==
    LET s1 == Sin4(a[2])  c1 == Cos4(a[2])
        s2 == Sin4(a[3])  c2 == Cos4(a[3])
    IN  << <<c1 * c2, s2, 0>>,
           <<0 - c1 * s2, c2, 0>>,
           <<s1, 0, 1>> >>
\* Rotation::calcUnnormalizedQBlockForQuaternion: qdot = N(q) * w_F, N = E(q/2).
calcUnnormalizedQBlockForQuaternion(e) ==
    LET h == [i \in 1..4 |-> Half(e[i])]
    IN  << <<Neg(h[2]), Neg(h[3]), Neg(h[4])>>,
           <<h[1], h[4], Neg(h[3])>>,
           <<Neg(h[4]), h[1], h[2]>>,
           <<h[3], Neg(h[2]), h[1]>> >>
\* Rotation::calcUnnormalizedQInvBlockForQuaternion: w_F = NInv(q) * qdot.
calcUnnormalizedQInvBlockForQuaternion(e) ==
    LET t == [i \in 1..4 |-> Mul(2, e[i])]
    IN  << <<Neg(t[2]), t[1], Neg(t[4]), t[3]>>,
           <<Neg(t[3]), t[4], t[1], Neg(t[2])>>,
           <<Neg(t[4]), Neg(t[3]), t[2], t[1]>> >>
convertAngVelToBodyFixed123Dot(a, w_B) ==
    MatVecN(calcQBlockForBodyXYZInBodyFrame(a), w_B)
convertAngVelToQuaternionDot(e, w_F) ==
    MatVecN(calcUnnormalizedQBlockForQuaternion(e), w_F)
\* qdotdot = E * wdot_B + EDot * w_B, EDot the time derivative of E along qdot.
convertAngVelDotToBodyFixed123DotDot(a, w_B, wdot_B) ==
    LET s1 == Sin4(a[2])  c1 == Cos4(a[2])
        s2 == Sin4(a[3])  c2 == Cos4(a[3])
        ooc1 == Div(1, c1)
        E == calcQBlockForBodyXYZInBodyFrame(a)
        qd == MatVecN(E, w_B)
        d1 == Mul(qd[2], Mul(ooc1, ooc1))      \* qdot[1]/c1^2
        d2 == Mul(qd[3], ooc1)                 \* qdot[2]/c1
        EDot == << <<Add(Neg(Mul(s2, d2)), Mul(c2 * s1, d1)),
                     Sub(Neg(Mul(c2, d2)), Mul(s2 * s1, d1)), 0>>,
                   <<Mul(c2, qd[3]), Neg(Mul(s2, qd[3])), 0>>,
                   <<Add(Neg(Mul(c2, d1)), Mul(s1 * s2, d2)),
                     Add(Mul(s2, d1), Mul(s1 * c2, d2)), 0>> >>
    IN  VAddN(MatVecN(E, wdot_B), MatVecN(EDot, w_B))
\* qdotdot = N(q) * wdot_F + N(qdot) * w_F.
convertAngVelDotToQuaternionDotDot(e, w_F, wdot_F) ==
    LET N == calcUnnormalizedQBlockForQuaternion(e)
        NDot == calcUnnormalizedQBlockForQuaternion(MatVecN(N, w_F))
    IN  VAddN(MatVecN(N, wdot_F), MatVecN(NDot, w_F))

\* Rotation(BodyRotationSequence, q[0], XAxis, q[1], YAxis, q[2], ZAxis)
R_FMOfAngles(qq) == setRotationToBodyFixedXYZ(Get3(qq, 0))
\* Rotation(Quaternion(Vec4::getAs(q)))
R_FMOfQuaternion(qq) == setRotationFromQuaternion(Quaternion(Get4(qq, 0)))

\* "out = in * N" for matrixOnRight, "out = N * in" otherwise, written from
\* the first slot of out on; the lengths are those of the matrix.
timesN(N, matrixOnRight, in, out) ==
    IF matrixOnRight THEN Put(out, 0, RowMatN(GetN(in, 0, Len(N)), N))
    ELSE Put(out, 0, MatVecN(N, GetN(in, 0, Len(N[1]))))

BallLike == {"Ball", "Ellipsoid", "Free"}
LineLike == {"LineOrientation", "FreeLine"}
\* The rotational block each class forms in multiplyByN and multiplyByNInv.
NBlock(jt, mv, qq) ==
    CASE jt = "Gimbal" \/ (jt \in BallLike /\ mv) ->
            MatMulN(calcQBlockForBodyXYZInBodyFrame(Get3(qq, 0)), MatT(R_FMOfAngles(qq)))
      [] jt \in BallLike -> calcUnnormalizedQBlockForQuaternion(Get4(qq, 0))
      [] jt \in LineLike /\ mv ->
            getSubMat(calcQBlockForBodyXYZInBodyFrame(Get3(qq, 0)), 3, 2)
      [] jt \in LineLike ->
            getSubMat(MatMulN(calcUnnormalizedQBlockForQuaternion(Get4(qq, 0)),
                              R_FMOfQuaternion(qq)), 4, 2)
NInvBlock(jt, mv, qq) ==
    CASE jt = "Gimbal" \/ (jt \in BallLike /\ mv) ->
            MatMulN(R_FMOfAngles(qq), calcQInvBlockForBodyXYZInBodyFrame(Get3(qq, 0)))
      [] jt \in BallLike -> calcUnnormalizedQInvBlockForQuaternion(Get4(qq, 0))
      [] jt \in LineLike /\ mv ->
            getSubMat(calcQInvBlockForBodyXYZInBodyFrame(Get3(qq, 0)), 2, 3)
      [] jt \in LineLike ->
            getSubMat(MatMulN(MatT(R_FMOfQuaternion(qq)),
                              calcUnnormalizedQInvBlockForQuaternion(Get4(qq, 0))), 2, 4)

\* multiplyByN with the translational block left out.
multiplyByN_rotationalBlockOnly(jt, mv, qq, matrixOnRight, in, out) ==
    IF jt \in {"Ground", "Weld"} THEN out
    ELSE timesN(NBlock(jt, mv, qq), matrixOnRight, in, out)

\* multiplyByN: out_q = N * in_u, or out_u = in_q * N for matrixOnRight.
\* RBGroundBody's body is empty; Free and FreeLine copy the translational
\* entries after the rotational block.
multiplyByN(jt, mv, qq, matrixOnRight, in, out) ==
    LET rot == timesN(NBlock(jt, mv, qq), matrixOnRight, in, out)
    IN  CASE jt \in {"Ground", "Weld"} -> out
          [] jt = "Free" /\ mv -> Put(rot, 3, GetN(in, 3, 3))
          [] jt = "Free" /\ matrixOnRight -> Put(rot, 3, GetN(in, 4, 3))
          [] jt = "Free" -> Put(rot, 4, GetN(in, 3, 3))
          [] jt = "FreeLine" /\ mv /\ matrixOnRight -> Put(rot, 2, GetN(in, 3, 3))
          [] jt = "FreeLine" /\ mv -> Put(rot, 3, GetN(in, 2, 3))
          [] jt = "FreeLine" /\ matrixOnRight -> Put(rot, 2, GetN(in, 4, 3))
          [] jt = "FreeLine" -> Put(rot, 4, GetN(in, 2, 3))
          [] OTHER -> rot

\* multiplyByNInv: out_u = NInv * in_q, or out_q = in_u * NInv for matrixOnRight.
multiplyByNInv(jt, mv, qq, matrixOnRight, in, out) ==
    LET rot == timesN(NInvBlock(jt, mv, qq), matrixOnRight, in, out)
    IN  CASE jt \in {"Ground", "Weld"} -> out
          [] jt = "Free" /\ mv -> Put(rot, 3, GetN(in, 3, 3))
          [] jt = "Free" /\ matrixOnRight -> Put(rot, 4, GetN(in, 3, 3))
          [] jt = "Free" -> Put(rot, 3, GetN(in, 4, 3))
          [] jt = "FreeLine" /\ mv /\ matrixOnRight -> Put(rot, 3, GetN(in, 2, 3))
          [] jt = "FreeLine" /\ mv -> Put(rot, 2, GetN(in, 3, 3))
          [] jt = "FreeLine" /\ matrixOnRight -> Put(rot, 4, GetN(in, 2, 3))
          [] jt = "FreeLine" -> Put(rot, 2, GetN(in, 4, 3))
          [] OTHER -> rot

\* RBGroundBody::multiplyByNDot, inherited by Weld: an empty body.
multiplyByNDot(jt, mv, qq, uu, matrixOnRight, in, out) == out

\* Gimbal and Ball: qdot from u.  Ball clears the fourth slot in Euler mode.
calcLocalQDotFromLocalU(jt, mv, qq, X, uu, qdot) ==
    LET w_FM == GetN(uu, 0, 3)
        body == convertAngVelToBodyFixed123Dot(Get3(qq, 0), MatVecN(MatT(X.R), w_FM))
    IN  CASE jt = "Gimbal" -> Put(qdot, 0, body)
          [] jt = "Ball" /\ mv -> Put(Put(qdot, 0, <<0, 0, 0, 0>>), 0, body)
          [] jt = "Ball" -> Put(qdot, 0, convertAngVelToQuaternionDot(Get4(qq, 0), w_FM))
\* calcQDot computes the same on the joint's slots of the global vectors.
calcQDot(jt, mv, qq, X, uu, qdot) ==
    LET w_FM == GetN(uu, 0, 3)
        body == convertAngVelToBodyFixed123Dot(Get3(qq, 0), MatVecN(MatT(X.R), w_FM))
    IN  CASE jt = "Gimbal" -> Put(qdot, 0, body)
          [] jt = "Ball" /\ mv -> Put(Put(qdot, 0, <<0, 0, 0, 0>>), 0, body)
          [] jt = "Ball" -> Put(qdot, 0, convertAngVelToQuaternionDot(Get4(qq, 0), w_FM))
\* Gimbal and Ball: qdotdot from udot and the state's u.
calcLocalQDotDotFromLocalUDot(jt, mv, qq, X, uu, udot, qdd) ==
    LET w_FM == GetN(uu, 0, 3)
        w_FM_dot == GetN(udot, 0, 3)
        body == convertAngVelDotToBodyFixed123DotDot(Get3(qq, 0),
                    MatVecN(MatT(X.R), w_FM), MatVecN(MatT(X.R), w_FM_dot))
    IN  CASE jt = "Gimbal" -> Put(qdd, 0, body)
          [] jt = "Ball" /\ mv -> Put(Put(qdd, 0, <<0, 0, 0, 0>>), 0, body)
          [] jt = "Ball" ->
                Put(qdd, 0, convertAngVelDotToQuaternionDotDot(Get4(qq, 0), w_FM, w_FM_dot))
calcQDotDot(jt, mv, qq, X, uu, udot, qdd) ==
    LET w_FM == GetN(uu, 0, 3)
        w_FM_dot == GetN(udot, 0, 3)
        body == convertAngVelDotToBodyFixed123DotDot(Get3(qq, 0),
                    MatVecN(MatT(X.R), w_FM), MatVecN(MatT(X.R), w_FM_dot))
    IN  CASE jt = "Gimbal" -> Put(qdd, 0, body)
          [] jt = "Ball" /\ mv -> Put(Put(qdd, 0, <<0, 0, 0, 0>>), 0, body)
          [] jt = "Ball" ->
                Put(qdd, 0, convertAngVelDotToQuaternionDotDot(Get4(qq, 0), w_FM, w_FM_dot))

\* The stage each operator asks of the state before it writes.  The four
\* operators with an assert on sbs.getStage() name their stage there;
\* calcQDot and calcQDotDot have no assert of their own and reach the state
\* only through SBStateDigest::getPositionCache(), which asks for Position.
\* RBGroundBody's operators ask for nothing.
requiredStage(jt, op) ==
    CASE jt \in {"Ground", "Weld"} -> StageEmpty
      [] op = "multiplyByN" -> StageModel
      [] op = "multiplyByNInv" -> StagePosition
      [] op = "calcLocalQDotFromLocalU" -> StagePosition
      [] op = "calcLocalQDotDotFromLocalUDot" -> StageVelocity
      [] op = "calcQDot" -> StagePosition
      [] op = "calcQDotDot" -> StagePosition

\* The joints of this part, the coordinates and speeds their state holds and
\* the arrays the caller hands in.  Euler angles keep cos(q[1]) away from 0.
RawJoints ==
    {"Gimbal", "Ball", "Ellipsoid", "LineOrientation", "Free", "FreeLine", "Ground", "Weld"}
RawQInputs(jt, mv) ==
    IF jt \in QuaternionCapable /\ ~mv
    THEN {Put(Put([i \in QSlots |-> 0], 0, e), 4, <<5, 6, 7>>) :
            e \in {<<2, 0, 0, 0>>, <<0, 0, 0, -2>>}}
    ELSE {[i \in QSlots |-> <<1, 2, 3, 5, 6, 7, 0>>[i + 1]],
          [i \in QSlots |-> <<3, 0, 1, 5, 6, 7, 0>>[i + 1]]}
RawUInputs ==
    {[i \in USlots |-> 2 * (i + 1)], [i \in USlots |-> <<0, -2, 4, 2, 0, 0>>[i + 1]]}
RawArrays ==
    {[i \in QSlots |-> i + 1], [i \in QSlots |-> <<0, -2, 0, 2, 0, 8, -4>>[i + 1]]}
\* A position cache never realized holds whatever its storage held.
StaleX_FM == {TransformId, TransformNaN}

otherThanRaw ==
    << gravityVars, evalVars, treeVars, jointType, useEuler, q, u, lastFit,
       impl, qErrest, returned, nodes, nextUSlot, nextQSlot, created, ndebug,
       jacobianVars, customVars >>

\* The caller hands multiplyByNInv a prepared array, or the array the call of
\* multiplyByN just before wrote; the output array is always a fresh one.
ChainedArrays == IF call.op = "multiplyByN" /\ ~halted THEN {outBuf} ELSE {}
Called(op, matrixOnRight, in) ==
    [op |-> op, matrixOnRight |-> matrixOnRight, in |-> in,
     chained |-> op = "multiplyByNInv" /\ in \in ChainedArrays]

\* The state is realized one stage further; realizing Position fills the
\* position cache with the across-joint transform.
realize ==
    /\ ~halted /\ sbStage < StageVelocity
    /\ sbStage' = sbStage + 1
    /\ X_FM' = IF sbStage' = StagePosition
               THEN Joint(jointType, "calcAcrossJointTransform", useEuler,
                          JointState, Vec3Zero).X
               ELSE X_FM
    /\ call' = Called("realize", FALSE, <<>>)
    /\ UNCHANGED << outBuf, halted, otherThanRaw >>

\* One call of a raw operator on a fresh output array: a failed assert aborts
\* before anything is written unless NDEBUG is defined, and then the operator
\* goes on.
rawCall(op, matrixOnRight, in, result) ==
    /\ ~halted
    /\ call' = Called(op, matrixOnRight, in)
    /\ IF ~ndebug /\ sbStage < requiredStage(jointType, op)
       THEN halted' = TRUE /\ outBuf' = FreshQ
       ELSE halted' = FALSE /\ outBuf' = result
    /\ UNCHANGED << sbStage, X_FM, otherThanRaw >>

multiplyByNCall(matrixOnRight, in) ==
    /\ jointType \in RawJoints
    /\ rawCall("multiplyByN", matrixOnRight, in,
               multiplyByN(jointType, useEuler, q, matrixOnRight, in, FreshQ))
multiplyByNInvCall(matrixOnRight, in) ==
    /\ jointType \in RawJoints
    /\ rawCall("multiplyByNInv", matrixOnRight, in,
               multiplyByNInv(jointType, useEuler, q, matrixOnRight, in, FreshQ))
multiplyByNDotCall(matrixOnRight, in) ==
    /\ jointType \in {"Ground", "Weld"}
    /\ rawCall("multiplyByNDot", matrixOnRight, in,
               multiplyByNDot(jointType, useEuler, q, u, matrixOnRight, in, FreshQ))
calcLocalQDotFromLocalUCall ==
    /\ jointType \in {"Gimbal", "Ball"}
    /\ rawCall("calcLocalQDotFromLocalU", FALSE, u,
               calcLocalQDotFromLocalU(jointType, useEuler, q, X_FM, u, FreshQ))
calcQDotCall ==
    /\ jointType \in {"Gimbal", "Ball"}
    /\ rawCall("calcQDot", FALSE, u, calcQDot(jointType, useEuler, q, X_FM, u, FreshQ))
calcLocalQDotDotFromLocalUDotCall(udot) ==
    /\ jointType \in {"Gimbal", "Ball"}
    /\ rawCall("calcLocalQDotDotFromLocalUDot", FALSE, udot,
               calcLocalQDotDotFromLocalUDot(jointType, useEuler, q, X_FM, u, udot, FreshQ))
calcQDotDotCall(udot) ==
    /\ jointType \in {"Gimbal", "Ball"}
    /\ rawCall("calcQDotDot", FALSE, udot,
               calcQDotDot(jointType, useEuler, q, X_FM, u, udot, FreshQ))

\* =========================================================================
\*            THE CUSTOM MOBILIZER'S NODE AND ITS IMPLEMENTATION
\* =========================================================================
\* Each realize method of RBNodeCustom makes two calls: the built-in
\* realization of the node and the realize method of the user's
\* implementation.  The log holds them in the order made; a built-in
\* realization notes whether the implementation had realized the stage by
\* then (its across-joint transform and velocity come from the
\* implementation).
CustomStages ==
    {StageModel, StageInstance, StageTime, StagePosition, StageVelocity,
     StageDynamics, StageAcceleration, StageReport}
ImplRealize(g) == [by |-> "impl", stage |-> g, implReady |-> TRUE]
BuiltInRealize(g, implAt) == [by |-> "node", stage |-> g, implReady |-> implAt >= g]
otherThanCustom ==
    << gravityVars, evalVars, treeVars, jointType, useEuler, q, u, X_FM, lastFit,
       impl, qErrest, returned, builderVars, jacobianVars, outBuf, call >>
\* RigidBodyNodeSpec<nu>::realizeX(sbs); impl.realizeX(state).
builtInThenImpl(g) ==
    /\ sbStage = g - 1
    /\ realizeLog' = << BuiltInRealize(g, implStage), ImplRealize(g) >>
    /\ implStage' = g
    /\ sbStage' = g
    /\ UNCHANGED otherThanCustom
\* impl.realizeX(state); RigidBodyNodeSpec<nu>::realizeX(sbs).
implThenBuiltIn(g) ==
    /\ sbStage = g - 1
    /\ realizeLog' = << ImplRealize(g), BuiltInRealize(g, g) >>
    /\ implStage' = g
    /\ sbStage' = g
    /\ UNCHANGED otherThanCustom

RBNodeCustom_realizeModel == jointType = "Custom" /\ builtInThenImpl(StageModel)
RBNodeCustom_realizeInstance == jointType = "Custom" /\ builtInThenImpl(StageInstance)
RBNodeCustom_realizeTime == jointType = "Custom" /\ builtInThenImpl(StageTime)
RBNodeCustom_realizePosition_builtInFirst ==
    jointType = "Custom" /\ builtInThenImpl(StagePosition)
RBNodeCustom_realizePosition == jointType = "Custom" /\ implThenBuiltIn(StagePosition)
RBNodeCustom_realizeVelocity == jointType = "Custom" /\ implThenBuiltIn(StageVelocity)
RBNodeCustom_realizeDynamics == jointType = "Custom" /\ builtInThenImpl(StageDynamics)
RBNodeCustom_realizeAcceleration ==
    jointType = "Custom" /\ builtInThenImpl(StageAcceleration)
RBNodeCustom_realizeReport == jointType = "Custom" /\ builtInThenImpl(StageReport)

\* The caller changes a state variable of stage g: the State, and with it the
\* cache entries of the implementation, fall back to the stage before.
invalidateStage(g) ==
    /\ jointType = "Custom"
    /\ sbStage >= g
    /\ sbStage' = g - 1
    /\ implStage' = g - 1
    /\ UNCHANGED << realizeLog, otherThanCustom >>

\* =========================================================================
\*                           SPECIFICATIONS
\* =========================================================================
\* No element constructed yet; the States in S exist but are unrealized.
GravityInit(S) ==
    /\ adopted = FALSE
    /\ defDirection = Vec3Zero
    /\ defMagnitude = 0
    /\ defZeroHeight = 0
    /\ defMobodIsImmune = EmptyArray
    /\ numEvaluations = 0
    /\ stage = [s \in S |-> StageEmpty]
    /\ instanceVars = [s \in S |-> NoInstanceVars]
    /\ forceCache = [s \in S |-> NoForceCache]
    /\ cacheValid = [s \in S |-> FALSE]
    /\ bodyTransform = [s \in S |-> NoTransforms]
    /\ pc = [s \in S |-> "idle"]
    /\ reg = [s \in S |-> 0]
    /\ nComputed = 0
    /\ lastOp = Call("none", Vec3Zero, 0, TRUE, NoRet)

\* The arrays as resetForces leaves them, no element applied yet.
EvalIdle ==
    /\ bodyForces = [b \in 0..(NumBodies - 1) |-> SpatialZero]
    /\ particleForces = [p \in {} |-> Vec3Zero]
    /\ mobilityForces = [i \in 0..(NumMobilities - 1) |-> 0]
    /\ applied = <<>>

\* The element as the constructor call Gravity(forces, matter, d, g, z) with
\* valid arguments leaves it.
Constructed(d, g, z) ==
    /\ adopted = TRUE
    /\ defDirection = d
    /\ defMagnitude = g
    /\ defZeroHeight = z
    /\ defMobodIsImmune = [b \in 0..(NumBodies - 1) |-> b = 0]
    /\ numEvaluations = 0

\* The States in S, unrealized.
Unrealized(S) ==
    /\ stage = [s \in S |-> StageEmpty]
    /\ instanceVars = [s \in S |-> NoInstanceVars]
    /\ forceCache = [s \in S |-> NoForceCache]
    /\ cacheValid = [s \in S |-> FALSE]
    /\ bodyTransform = [s \in S |-> NoTransforms]
    /\ pc = [s \in S |-> "idle"]
    /\ reg = [s \in S |-> 0]
    /\ nComputed = 0
    /\ lastOp = Call("none", Vec3Zero, 0, TRUE, NoRet)

\* ---- Spec: one constructed Gravity element, one State, one thread: the
\* per-State setters, the realizations and the queries.
Init ==
    /\ Constructed(<<0, 0, -1>>, 2, 0)
    /\ Unrealized({1})
    /\ EvalIdle /\ TreeIdle /\ JointIdle

Next ==
    \/ \E s \in States : realizeTopology(s)
    \/ \E s \in States : realizeInstance(s)
    \/ \E s \in States : realizePosition(s)
    \/ \E s \in States, b \in 1..(NumBodies - 1), X \in BodyPoses : setBodyTransform(s, b, X)
    \/ \E s \in States, b \in BodyInputs, f \in BOOLEAN : setBodyIsExcluded(s, b, f)
    \/ \E s \in States, v \in GravityInputs : setGravityVector(s, v)
    \/ \E s \in States, d \in DirectionInputs : setDownDirection(s, d)
    \/ \E s \in States, g \in MagnitudeInputs : setMagnitude(s, g)
    \/ \E s \in States, z \in ZeroHeightInputs : setZeroHeight(s, z)
    \/ \E s \in States : getPotentialEnergy(s)
    \/ \E s \in States, b \in 0..(NumBodies - 1) : getBodyForce(s, b)
    \/ \E s \in States : calcPotentialEnergy(s)

Spec == Init /\ [][Next]_vars

\* ---- SpecConfig: construction and the validating setters.
InitConfig == GravityInit({1}) /\ EvalIdle /\ TreeIdle /\ JointIdle

NextConfig ==
    \/ \E d \in DirectionInputs, g \in MagnitudeInputs, z \in ZeroHeightInputs : Gravity(d, g, z)
    \/ \E v \in GravityInputs : GravityVec3(v)
    \/ \E v \in GravityInputs : setDefaultGravityVector(v)
    \/ \E d \in DirectionInputs : setDefaultDownDirection(d)
    \/ \E g \in MagnitudeInputs : setDefaultMagnitude(g)
    \/ \E s \in States : realizeTopology(s)
    \/ \E s \in States : realizeInstance(s)
    \/ \E s \in States : realizePosition(s)
    \/ \E s \in States, v \in GravityInputs : setGravityVector(s, v)
    \/ \E s \in States, d \in DirectionInputs : setDownDirection(s, d)
    \/ \E s \in States, g \in MagnitudeInputs : setMagnitude(s, g)
    \/ \E s \in States : getPotentialEnergy(s)

SpecConfig == InitConfig /\ [][NextConfig]_vars

\* ---- SpecGround: the operations that deal with per-body immunity.
GroundDirections == {<<0, 0, -1>>}
GroundMagnitudes == {0, 2}
GroundHeights == {0}

NextGround ==
    \/ \E d \in GroundDirections, g \in GroundMagnitudes, z \in GroundHeights : Gravity(d, g, z)
    \/ \E b \in BodyInputs, f \in BOOLEAN : setDefaultBodyIsExcluded(b, f)
    \/ \E z \in ZeroHeightInputs : setDefaultZeroHeight(z)
    \/ \E s \in States : realizeTopology(s)
    \/ \E s \in States : realizeInstance(s)
    \/ \E s \in States : realizePosition(s)
    \/ \E s \in States, b \in BodyInputs, f \in BOOLEAN : setBodyIsExcluded(s, b, f)
    \/ \E s \in States, b \in 0..(NumBodies - 1) : getBodyForce(s, b)

SpecGround == InitConfig /\ [][NextGround]_vars

\* A State realized to the Instance stage with instance variables iv.
InstanceState(iv) ==
    [iv |-> iv, fc |-> InstanceForceCache(iv, allocate(NumBodies, NumParticles))]

\* ---- SpecMT: NThreads threads query the same element, each on its own State.
\* Every State was realized to the Instance stage from the same defaults and
\* then given its own magnitude.
MTMagnitudes == {0, 2}
InitMT ==
    /\ Constructed(<<0, 0, -1>>, 2, 0)
    /\ \E gs \in [1..NThreads -> MTMagnitudes] :
          LET iv(t) == InstanceVars(defDirection, gs[t], defZeroHeight, defMobodIsImmune)
          IN  /\ instanceVars = [t \in 1..NThreads |-> iv(t)]
              /\ forceCache = [t \in 1..NThreads |-> InstanceState(iv(t)).fc]
    /\ stage = [t \in 1..NThreads |-> StageInstance]
    /\ cacheValid = [t \in 1..NThreads |-> FALSE]
    /\ bodyTransform = [t \in 1..NThreads |-> NoTransforms]
    /\ pc = [t \in 1..NThreads |-> "idle"]
    /\ reg = [t \in 1..NThreads |-> 0]
    /\ nComputed = 0
    /\ lastOp = Call("none", Vec3Zero, 0, TRUE, NoRet)
    /\ EvalIdle /\ TreeIdle /\ JointIdle

NextMT ==
    \/ \E t \in States : realizePosition(t)
    \/ \E t \in States, X \in BodyPoses : setBodyTransform(t, 1, X)
    \/ \E t \in States : ensureCheck(t)
    \/ \E t \in States : ensureStore(t)
    \/ \E t \in States : ensureCompute(t)

SpecMT == InitMT /\ [][NextMT]_vars

\* ---- SpecEval: one force evaluation on a realized State, Gravity composed
\* with the other elements in every order.
InitEval ==
    /\ \E d \in {<<0, 0, -1>>, <<0, -1, 0>>}, g \in {0, 2},
          imm \in [0..(NumBodies - 1) -> BOOLEAN],
          X \in [0..(NumBodies - 1) -> BodyPoses] :
          /\ imm[0] /\ X[0] = TransformId
          /\ Constructed(d, g, 0)
          /\ instanceVars = [s \in {1} |-> InstanceVars(d, g, 0, imm)]
          /\ forceCache = [s \in {1} |-> InstanceState(InstanceVars(d, g, 0, imm)).fc]
          /\ bodyTransform = [s \in {1} |-> X]
    /\ stage = [s \in {1} |-> StagePosition]
    /\ cacheValid = [s \in {1} |-> FALSE]
    /\ pc = [s \in {1} |-> "idle"]
    /\ reg = [s \in {1} |-> 0]
    /\ nComputed = 0
    /\ lastOp = Call("none", Vec3Zero, 0, TRUE, NoRet)
    /\ EvalIdle /\ TreeIdle /\ JointIdle

NextEval ==
    \/ \E s \in States : calcForce(s)
    \/ \E e \in OtherElements : otherCalcForce(e)
    \/ resetForces

SpecEval == InitEval /\ [][NextEval]_vars

\* ---- the tree: a Ground node and Weld nodes, realized and then operated on.
\* The caller's arrays start as not-a-number, its generalized vectors hold
\* values of their own, one body force is applied to each body.
TreeBodyForces == [n \in Nodes |-> SpatialVec(<<0, 0, n>>, <<1, 0, 0>>)]
GeneralizedVector(base, k) == [i \in 1..k |-> base + i]
TreeAllocated ==
    /\ Constructed(<<0, 0, -1>>, 2, 0) /\ Unrealized({1}) /\ JointIdle
    /\ mobilityForces = <<>> /\ particleForces = <<>> /\ applied = <<>>
    /\ bodyForces = TreeBodyForces
    /\ parent \in TreeShapes
    /\ pass = "none" /\ seq = <<>> /\ realized = {}
    /\ written = GroundEntries \cup Of(Nodes, {"bodyForces"})
    /\ badReads = {} /\ lastReads = {}
    /\ positionCache = [n \in Nodes |-> AllocatedPosition(n)]
    /\ velocityCache = [n \in Nodes |-> AllocatedVelocity(n)]
    /\ dynamicsCache = [n \in Nodes |-> AllocatedDynamics(n)]
    /\ allZ = [n \in Nodes |-> SpatialNaN]
    /\ allGepsilon = [n \in Nodes |-> SpatialNaN]
    /\ allA_GB = [n \in Nodes |-> SpatialNaN]
    /\ allF = [n \in Nodes |-> SpatialNaN]
    /\ \E k \in 0..MaxDof :
        /\ allUDot = GeneralizedVector(10, k)
        /\ allEpsilon = GeneralizedVector(20, k)
        /\ allTau = GeneralizedVector(30, k)
        /\ qdotdot = GeneralizedVector(40, k)
InitTree == TreeAllocated /\ mobilized = {}
NextTree ==
    \/ \E p \in (StagePasses \cup {"udot1", "minvf1", "ma1", "accel", "qdotdot", "ejf"}) :
            beginPass(p)
    \/ Ground_step
    \/ \E n \in Nodes : Weld_realizePosition(n)
    \/ \E n \in Nodes : Weld_realizeVelocity(n)
    \/ \E n \in Nodes : Weld_realizeDynamics(n)
    \/ \E n \in Nodes : Weld_calcArticulatedBodyInertiasInward(n)
    \/ \E n \in Nodes : Weld_calcUDotPass1Inward(n)
    \/ \E n \in Nodes : Weld_calcUDotPass2Outward(n)
    \/ \E n \in Nodes : Weld_calcMInverseFPass1Inward(n)
    \/ \E n \in Nodes : Weld_calcMInverseFPass2Outward(n)
    \/ \E n \in Nodes : Weld_calcMAPass1Outward(n)
    \/ \E n \in Nodes : Weld_calcMAPass2Inward(n)
    \/ \E n \in Nodes : Weld_calcAccel(n)
    \/ \E n \in Nodes : Weld_calcQDotDot(n)
    \/ \E n \in Nodes : Weld_calcEquivalentJointForces(n)
    \/ endPass
SpecTree == InitTree /\ [][NextTree]_vars

\* The stage passes over a tree whose node 1 is free to move and whose other
\* nodes are welded to their parents.
InitMoving == TreeAllocated /\ mobilized = {1}
NextMoving ==
    \/ \E p \in StagePasses : beginPass(p)
    \/ Ground_step
    \/ \E n \in Nodes : Weld_realizePosition(n)
    \/ \E n \in Nodes : Weld_realizeVelocity(n)
    \/ \E n \in Nodes : Weld_realizeDynamics(n)
    \/ \E n \in Nodes : Weld_calcArticulatedBodyInertiasInward(n)
    \/ \E n \in Nodes : Free_realizePosition(n)
    \/ \E n \in Nodes, uu \in MovingU : Free_realizeVelocity(n, uu)
    \/ \E n \in Nodes : Free_realizeDynamics(n)
    \/ \E n \in Nodes : Free_calcArticulatedBodyInertiasInward(n)
    \/ endPass
SpecMoving == InitMoving /\ [][NextMoving]_vars

\* ---- one joint of each class, its q and u holding values of their own,
\* fitted and evaluated in every order.
InitJoint ==
    /\ Constructed(<<0, 0, -1>>, 2, 0) /\ Unrealized({1}) /\ EvalIdle /\ TreeIdle
    /\ jointType \in Joints
    /\ useEuler \in (IF jointType \in QuaternionJoints THEN BOOLEAN ELSE {FALSE})
    /\ q = [i \in QSlots |-> IF i = 0 THEN 1 ELSE IF i < 4 THEN 0 ELSE i + 1]
    /\ u = [i \in USlots |-> i + 1]
    /\ X_FM = TransformId
    /\ lastFit = Fitted("none")
    /\ NodeIdle
NextJoint ==
    \/ \E R_FM \in RotationInputs(jointType, useEuler) : setQToFitRotation(R_FM)
    \/ \E p_FM \in TranslationInputs(jointType) : setQToFitTranslation(p_FM)
    \/ \E R_FM \in RotationInputs(jointType, useEuler),
          p_FM \in TranslationInputs(jointType) :
            setQToFitTransform(Transform(R_FM, p_FM))
    \/ \E w_FM \in AngularVelocityInputs : setUToFitAngularVelocity(w_FM)
    \/ \E v_FM \in LinearVelocityInputs : setUToFitLinearVelocity(v_FM)
    \/ calcAcrossJointTransform
SpecJoint == InitJoint /\ [][NextJoint]_vars

\* ---- one node that may hold a quaternion (or Ground, or a Weld): its q is
\* normalized and converted between the two representations.
InitQuat ==
    /\ Constructed(<<0, 0, -1>>, 2, 0) /\ Unrealized({1}) /\ EvalIdle /\ TreeIdle
    /\ jointType \in QuatNodes
    /\ impl \in (IF jointType = "Custom" THEN CustomImpls ELSE {NoImpl})
    /\ useEuler \in BOOLEAN
    /\ q = [i \in QSlots |-> IF i = 0 /\ ~useEuler THEN 1 ELSE 0]
    /\ u = [i \in USlots |-> 0]
    /\ X_FM = TransformId
    /\ lastFit = Fitted("none")
    /\ qErrest = <<>>
    /\ returned = FALSE
    /\ BuilderIdle /\ JacobianIdle /\ KinIdle
NextQuat ==
    \/ \E v \in QInputs(useEuler), e \in QErrestInputs : updQ(v, e)
    \/ enforceQuaternionConstraintsCall
    \/ convertToEulerAnglesCall
    \/ convertToQuaternionsCall
SpecQuat == InitQuat /\ [][NextQuat]_vars

\* ---- the nodes of a system are created one after the other, Ground first,
\* in a build with or without assertions, under either orientation option.
InitBuilder ==
    /\ Constructed(<<0, 0, -1>>, 2, 0) /\ Unrealized({1}) /\ EvalIdle /\ TreeIdle
    /\ jointType = "Ground" /\ useEuler \in BOOLEAN
    /\ q = [i \in QSlots |-> 0] /\ u = [i \in USlots |-> 0]
    /\ X_FM = TransformId /\ lastFit = Fitted("none")
    /\ QuatIdle /\ KinIdle
    /\ nodes = <<>> /\ nextUSlot = 0 /\ nextQSlot = 0
    /\ created = Request("none", NoImpl, "none") /\ ndebug \in BOOLEAN /\ halted = FALSE
    /\ JacobianIdle
NextBuilder == \E jt \in AllJoints : \E im \in ImplsOf(jt) : createRigidBodyNode(jt, im)
SpecBuilder == InitBuilder /\ [][NextBuilder]_vars

\* ---- one mobilizer of every class with mobilities: its q and u are set,
\* its transform is realized, and its Jacobians are evaluated.
InitMobilizer ==
    /\ Constructed(<<0, 0, -1>>, 2, 0) /\ Unrealized({1}) /\ EvalIdle /\ TreeIdle
    /\ jointType \in MobilizerJoints
    /\ impl \in (IF jointType = "Custom" THEN LegalImpls ELSE {NoImpl})
    /\ useEuler \in (IF jointType \in QuaternionCapable THEN BOOLEAN ELSE {FALSE})
    /\ geom \in GeomsOf(jointType)
    /\ q = [i \in QSlots |-> IF i = 0 /\ isUsingQuaternion(jointType, impl, useEuler)
                             THEN 1 ELSE 0]
    /\ u = [i \in USlots |-> 0]
    /\ X_FM = TransformId
    /\ lastFit = Fitted("none")
    /\ qErrest = <<>> /\ returned = FALSE /\ BuilderIdle
    /\ H_FM = Uninitialized(getDOF(jointType, impl))
    /\ HDot_FM = Uninitialized(getDOF(jointType, impl))
    /\ KinIdle
NextMobilizer ==
    \/ \E v \in MobilizerQInputs(jointType, impl, useEuler) : updQ(v, <<>>)
    \/ \E v \in MobilizerUInputs : updU(v)
    \/ jointType # "Custom" /\ calcAcrossJointTransform
    \/ calcAcrossJointVelocityJacobianCall
    \/ calcAcrossJointVelocityJacobianDotCall
    \/ calcReverseMobilizerH_FMCall
    \/ calcReverseMobilizerHDot_FMCall
SpecMobilizer == InitMobilizer /\ [][NextMobilizer]_vars

\* ---- the raw operators N, NInv, qdot and qdotdot of one joint, called on a
\* state realized stage by stage, in a build with or without assertions.
InitRaw ==
    /\ Constructed(<<0, 0, -1>>, 2, 0) /\ Unrealized({1}) /\ EvalIdle /\ TreeIdle
    /\ jointType \in RawJoints
    /\ useEuler \in (IF jointType \in QuaternionCapable THEN BOOLEAN ELSE {FALSE})
    /\ q \in RawQInputs(jointType, useEuler)
    /\ u \in RawUInputs
    /\ X_FM \in StaleX_FM
    /\ lastFit = Fitted("none")
    /\ QuatIdle /\ JacobianIdle
    /\ nodes = <<>> /\ nextUSlot = 0 /\ nextQSlot = 0
    /\ created = Request("none", NoImpl, "none")
    /\ ndebug \in BOOLEAN /\ halted = FALSE
    /\ sbStage = StageTopology /\ outBuf = FreshQ /\ call = NoCall
    /\ CustomIdle
NextRaw ==
    \/ realize
    \/ \E mr \in BOOLEAN : \E in \in RawArrays : multiplyByNCall(mr, in)
    \/ \E mr \in BOOLEAN : \E in \in RawArrays \cup ChainedArrays :
            multiplyByNInvCall(mr, in)
    \/ \E mr \in BOOLEAN : \E in \in RawArrays : multiplyByNDotCall(mr, in)
    \/ calcLocalQDotFromLocalUCall
    \/ calcQDotCall
    \/ \E udot \in RawArrays : calcLocalQDotDotFromLocalUDotCall(udot)
    \/ \E udot \in RawArrays : calcQDotDotCall(udot)
SpecRaw == InitRaw /\ [][NextRaw]_vars

\* A Custom node and the State it is realized with, stage by stage.
InitCustom ==
    /\ Constructed(<<0, 0, -1>>, 2, 0) /\ Unrealized({1}) /\ EvalIdle /\ TreeIdle
    /\ jointType = "Custom"
    /\ impl \in LegalImpls
    /\ useEuler \in BOOLEAN
    /\ geom \in GeomsOf(jointType)
    /\ q = [i \in QSlots |-> IF i = 0 /\ isUsingQuaternion(jointType, impl, useEuler)
                             THEN 1 ELSE 0]
    /\ u = [i \in USlots |-> 0]
    /\ X_FM = TransformId
    /\ lastFit = Fitted("none")
    /\ qErrest = <<>> /\ returned = FALSE /\ BuilderIdle
    /\ H_FM = Uninitialized(getDOF(jointType, impl))
    /\ HDot_FM = Uninitialized(getDOF(jointType, impl))
    /\ sbStage = StageTopology /\ outBuf = <<>> /\ call = NoCall
    /\ implStage = StageTopology /\ realizeLog = <<>>
NextCustom ==
    \/ RBNodeCustom_realizeModel
    \/ RBNodeCustom_realizeInstance
    \/ RBNodeCustom_realizeTime
    \/ RBNodeCustom_realizePosition
    \/ RBNodeCustom_realizeVelocity
    \/ RBNodeCustom_realizeDynamics
    \/ RBNodeCustom_realizeAcceleration
    \/ RBNodeCustom_realizeReport
    \/ \E g \in CustomStages : invalidateStage(g)
SpecCustom == InitCustom /\ [][NextCustom]_vars

\* =========================================================================
\*                              PROPERTIES
\* =========================================================================
QueryOps ==
    {"getPotentialEnergy", "getBodyForce", "getParticleForce",
     "calcPotentialEnergy", "calcForce"}
\* The per-element and per-State data a rejected call must leave alone.
configVars ==
    << adopted, defDirection, defMagnitude, defZeroHeight, defMobodIsImmune,
       numEvaluations, stage, instanceVars, forceCache, cacheValid, bodyTransform >>

\* C1: when threads evaluate the element concurrently on private States, once
\* every thread has returned getNumEvaluations() equals the number of
\* force-cache computations performed (no update of the counter is lost).
C1_CounterCountsEveryComputation ==
    (\A t \in States : pc[t] = "idle") => numEvaluations = nComputed

\* C2: the force cache is computed at most once per invalidation.  A query that
\* finds the entry valid computes nothing: counter and cache are unchanged and
\* the value returned is read from the unchanged cache, so it is the value the
\* first query returned.  A query that finds it invalid makes it valid, and
\* raises the counter by exactly one if the magnitude is nonzero and not at all
\* if it is zero.  Nothing but a query changes the counter, and the cache
\* content cannot change while the entry stays valid.
C2_ComputedOncePerInvalidation ==
    [][\A s \in States :
          LET c == lastOp'
              g == instanceVars[s].g
          IN  /\ (cacheValid[s] /\ cacheValid'[s]) => forceCache'[s] = forceCache[s]
              /\ c.op \notin QueryOps => numEvaluations' = numEvaluations
              /\ c.op \in QueryOps =>
                   /\ cacheValid'[s]
                   /\ cacheValid[s] =>
                        /\ numEvaluations' = numEvaluations
                        /\ nComputed' = nComputed
                        /\ forceCache' = forceCache
                   /\ (~cacheValid[s] /\ g # 0) => numEvaluations' = numEvaluations + 1
                   /\ (~cacheValid[s] /\ g = 0) => numEvaluations' = numEvaluations
                   /\ c.op \in {"getPotentialEnergy", "calcPotentialEnergy"} =>
                        c.ret = RealRet(forceCache'[s].pe)
                   /\ c.op = "getBodyForce" => c.ret = forceCache'[s].F_GB[c.real]
      ]_vars

\* A query answered from the valid cache after an invalidation and a second
\* computation.
C2_Witness ==
    /\ lastOp.op \in QueryOps
    /\ lastOp.vec[1] = 1
    /\ numEvaluations = 2
    /\ cacheValid[1]

\* C3: calcForce only adds in.  The step of Gravity's calcForce leaves
\* bodyForces and particleForces at their prior content plus the cached force
\* of each body and particle, with the same index sets, and leaves
\* mobilityForces as it was; hence at every point of an evaluation the arrays
\* hold the sum of the contributions of the elements applied so far, whatever
\* the order of the calls.
Contribution(e, b) ==
    IF e = "gravity" THEN forceCache[1].F_GB[b] ELSE OtherBodyForce(e, b)
MobilityContribution(e, i) ==
    IF e = "gravity" THEN 0 ELSE OtherMobilityForce(e, i)
Part(e, x) == IF e \in Range(applied) THEN x ELSE SpatialZero
MPart(e, x) == IF e \in Range(applied) THEN x ELSE 0
C3_AddInOnly ==
    /\ [](/\ DOMAIN bodyForces = 0..(NumBodies - 1)
          /\ DOMAIN particleForces = 0..(NumParticles - 1)
          /\ DOMAIN mobilityForces = 0..(NumMobilities - 1)
          /\ \A b \in DOMAIN bodyForces :
                bodyForces[b] =
                    SAdd(SAdd(Part("gravity", Contribution("gravity", b)),
                              Part("spring", Contribution("spring", b))),
                         Part("motor", Contribution("motor", b)))
          /\ \A i \in DOMAIN mobilityForces :
                mobilityForces[i] =
                    MPart("spring", MobilityContribution("spring", i))
                    + MPart("motor", MobilityContribution("motor", i)))
    /\ [][(applied' = Append(applied, "gravity")) =>
             /\ cacheValid'[1]
             /\ bodyForces' = [b \in DOMAIN bodyForces |->
                                  SAdd(bodyForces[b], forceCache'[1].F_GB[b])]
             /\ particleForces' = [p \in DOMAIN particleForces |->
                                  VAdd(particleForces[p], forceCache'[1].f_GP[p])]
             /\ mobilityForces' = mobilityForces
       ]_vars

\* Gravity added a nonzero force into arrays that already held another
\* element's nonzero contribution, and a third element followed.
C3_Witness ==
    /\ applied = <<"spring", "gravity", "motor">>
    /\ forceCache[1].F_GB[1] # SpatialZero
    /\ bodyForces[1] # forceCache[1].F_GB[1]

\* C4: the constructors and the setters of magnitude, gravity vector and down
\* direction validate before changing anything.  A negative magnitude, a
\* zero-length gravity vector and a non-finite direction are rejected; a
\* rejected call changes no default, no instance variable, no stage or cache
\* validity, and a rejected constructor leaves the element unadopted; a
\* magnitude of exactly zero is accepted and stored.
MagnitudeOps == {"Gravity", "setDefaultMagnitude", "setMagnitude"}
VectorOps == {"GravityVec3", "setDefaultGravityVector", "setGravityVector"}
DirectionOps == {"Gravity", "setDefaultDownDirection", "setDownDirection"}
C4_ValidateBeforeChange ==
    [][LET c == lastOp'
       IN  /\ (c.op \in MagnitudeOps /\ c.real < 0) => ~c.ok
           /\ (c.op \in VectorOps /\ c.vec = Vec3Zero) => ~c.ok
           /\ (c.op \in DirectionOps /\ ~VIsFinite(c.vec)) => ~c.ok
           /\ ~c.ok => UNCHANGED configVars
           /\ (~c.ok /\ c.op \in {"Gravity", "GravityVec3"}) => ~adopted'
           /\ (c.op = "Gravity" /\ c.real = 0 /\ VIsFinite(c.vec)) =>
                 (c.ok /\ adopted' /\ defMagnitude' = 0)
           /\ (c.op = "setDefaultMagnitude" /\ c.real = 0) =>
                 (c.ok /\ defMagnitude' = 0)
           /\ (c.op = "setMagnitude" /\ c.real = 0) =>
                 (c.ok /\ \A s \in States : instanceVars'[s].g = 0)
      ]_vars

\* A per-State setter was rejected while the force cache entry was valid (and
\* stayed valid).
C4_Witness ==
    /\ lastOp.op = "setMagnitude"
    /\ lastOp.real < 0
    /\ ~lastOp.ok
    /\ cacheValid[1]
    /\ instanceVars[1].g = 2

\* C5: Ground is always immune.  Once the element exists its default flag for
\* body 0 is true; in every realized State the flag of body 0 is true and the
\* cached force of body 0 is zero; getBodyForce for body 0 returns zero; and a
\* request to set Ground's flag, by default or in a State, is accepted and
\* changes nothing.
C5_GroundAlwaysImmune ==
    /\ [](/\ adopted => (0 \in DOMAIN defMobodIsImmune /\ defMobodIsImmune[0])
          /\ \A s \in States : stage[s] >= StageTopology =>
                /\ instanceVars[s].mobodIsImmune[0]
                /\ forceCache[s].F_GB[0] = SpatialZero
          /\ (lastOp.op = "getBodyForce" /\ lastOp.real = 0) => lastOp.ret = SpatialZero)
    /\ [][(lastOp'.op \in {"setBodyIsExcluded", "setDefaultBodyIsExcluded"}
             /\ lastOp'.real = 0)
          => (lastOp'.ok /\ UNCHANGED configVars)]_vars

\* A request to clear Ground's immunity in a State whose cache entry is valid.
C5_Witness ==
    /\ lastOp.op = "setBodyIsExcluded"
    /\ lastOp.real = 0
    /\ lastOp.vec[1] = 0
    /\ cacheValid[1]

\* C6: for every body that is not immune the valid cache holds the spatial
\* force (p_CB_G x m*g, m*g), where g = magnitude * direction and p_CB_G is the
\* mass-center offset re-expressed in Ground; the linear part is m*g whatever
\* the body's transform, so force over mass is the gravity vector.
C6_ForceFormula ==
    \A s \in States : \A b \in 1..(NumBodies - 1) :
        (cacheValid[s] /\ ~instanceVars[s].mobodIsImmune[b]) =>
            LET iv == instanceVars[s]
                g == <<iv.g * iv.d[1], iv.g * iv.d[2], iv.g * iv.d[3]>>
                m == BodyMass(b)
                mg == <<m * g[1], m * g[2], m * g[3]>>
                R == bodyTransform[s][b].R
                c == BodyMassCenter(b)
                p == << R[1][1] * c[1] + R[1][2] * c[2] + R[1][3] * c[3],
                        R[2][1] * c[1] + R[2][2] * c[2] + R[2][3] * c[3],
                        R[3][1] * c[1] + R[3][2] * c[2] + R[3][3] * c[3] >>
                F == forceCache[s].F_GB[b]
            IN  /\ F[2] = mg
                /\ F[1] = << p[2] * mg[3] - p[3] * mg[2],
                             p[3] * mg[1] - p[1] * mg[3],
                             p[1] * mg[2] - p[2] * mg[1] >>
                /\ <<F[2][1] \div m, F[2][2] \div m, F[2][3] \div m>> = g

\* A rotated and displaced body under nonzero gravity whose cached force has
\* a nonzero moment.
C6_Witness ==
    /\ cacheValid[1]
    /\ ~instanceVars[1].mobodIsImmune[1]
    /\ instanceVars[1].g = 2
    /\ bodyTransform[1][1].R # Mat33Id
    /\ forceCache[1].F_GB[1][1] # Vec3Zero

\* ---- C7: with every node's index above its parent's, a base-to-tip pass
\* run in increasing index order and a tip-to-base pass run in decreasing
\* index order read only entries already written: in the position, velocity
\* and articulated-body-inertia passes the entries read before they were
\* written are exactly the parent's X_GB (position), the parent's V_GB
\* (velocity) and the children's P and TauBar (inertia assembly) of the nodes
\* processed ahead of that neighbour, none when the order is kept.  Ground's
\* X_GB and V_GB are constant and count as written from the start.
InOrder(p, sq) ==
    \A i \in 1..Len(sq) :
        sq[i] = IF p \in OutwardPasses THEN i - 1 ELSE NumNodes - i
Before(sq, i) == {sq[j] : j \in 1..(i - 1)}
ReadUnwritten(p, sq) ==
    CASE p = "position" ->
            {<<"X_GB", parent[sq[i]]>> : i \in {j \in 1..Len(sq) :
                sq[j] # 0 /\ parent[sq[j]] \notin Before(sq, j) \cup {0}}}
      [] p = "velocity" ->
            {<<"V_GB", parent[sq[i]]>> : i \in {j \in 1..Len(sq) :
                sq[j] # 0 /\ parent[sq[j]] \notin Before(sq, j) \cup {0}}}
      [] p = "abi" ->
            UNION {Of(Children(sq[i]) \ Before(sq, i), {"P", "TauBar"}) :
                   i \in {j \in 1..Len(sq) : sq[j] # 0}}
      [] OTHER -> {}
C7_OrderedPassesReadWritten ==
    pass \in {"position", "velocity", "abi"} =>
        /\ InOrder(pass, seq) => badReads = {}
        /\ badReads = ReadUnwritten(pass, seq)
C7_Witness ==
    /\ pass = "abi" /\ Range(seq) = Nodes /\ InOrder(pass, seq)
    /\ badReads = {}
    /\ \E n \in Welds :
        /\ parent[n] # 0
        /\ <<"P", n>> \in written
        /\ dynamicsCache[parent[n]].P # positionCache[parent[n]].Mk
        /\ dynamicsCache[parent[n]].P # SpatialMatNaN

\* ---- C8: Ground and Weld steps never read or write an element of a
\* generalized vector: no step's reads or writes name allUDot, allEpsilon,
\* allTau or qdotdot, and every step of every operator leaves the four
\* vectors exactly as they were (an empty udot stays empty).
C8_GeneralizedVectorsUntouched ==
    /\ [](/\ lastReads \cap Of(Nodes, GeneralizedEntries) = {}
          /\ written \cap Of(Nodes, GeneralizedEntries) = {})
    /\ [][UNCHANGED generalizedVectors]_vars
C8_Witness ==
    /\ pass = "ma2" /\ Range(seq) = Nodes
    /\ Len(allUDot) = MaxDof /\ MaxDof > 0
    /\ allUDot = GeneralizedVector(10, MaxDof)
    /\ \A n \in Nodes :
        /\ VIsFinite(allZ[n][1]) /\ VIsFinite(allA_GB[n][2]) /\ VIsFinite(allF[n][1])

\* ---- C9: the four fit operators never fail and change only the slots the
\* requested kind of motion is expressed with: a rotation or angular-velocity
\* fit changes no q and no u on Translate and Slider; a translation or
\* linear-velocity fit changes no q and no u on Torsion, Universal, Gimbal,
\* Ball and LineOrientation; on Cylinder, Planar, Free and FreeLine a rotation
\* fit changes rotational slots only and a translation fit translational
\* slots only; on Ground and Weld nothing changes.  A q fit never changes u
\* and a u fit never changes q.
RotationalQ(jt, mv) ==
    CASE jt \in {"Torsion", "Cylinder", "Planar"} -> {0}
      [] jt = "Universal" -> {0, 1}
      [] jt = "Gimbal" -> {0, 1, 2}
      [] jt \in QuaternionJoints -> IF mv THEN {0, 1, 2} ELSE {0, 1, 2, 3}
      [] OTHER -> {}
TranslationalQ(jt, mv) ==
    CASE jt = "Translate" -> {0, 1, 2}
      [] jt = "Slider" -> {0}
      [] jt = "Cylinder" -> {1}
      [] jt = "Planar" -> {1, 2}
      [] jt \in {"Free", "FreeLine"} -> IF mv THEN {3, 4, 5} ELSE {4, 5, 6}
      [] OTHER -> {}
RotationalU(jt) ==
    CASE jt \in {"Torsion", "Cylinder", "Planar"} -> {0}
      [] jt \in {"Universal", "LineOrientation", "FreeLine"} -> {0, 1}
      [] jt \in {"Gimbal", "Ball", "Free"} -> {0, 1, 2}
      [] OTHER -> {}
TranslationalU(jt) ==
    CASE jt = "Translate" -> {0, 1, 2}
      [] jt = "Slider" -> {0}
      [] jt = "Cylinder" -> {1}
      [] jt = "Planar" -> {1, 2}
      [] jt = "Free" -> {3, 4, 5}
      [] jt = "FreeLine" -> {2, 3, 4}
      [] OTHER -> {}
OnlySlots(old, new, slots) ==
    /\ DOMAIN new = DOMAIN old
    /\ \A i \in DOMAIN old \ slots : new[i] = old[i]
C9_FitsChangeOnlyTheirSlots ==
    [][jointType # "BendStretch" =>
        /\ lastFit'.op = "setQToFitRotation" =>
            u' = u /\ OnlySlots(q, q', RotationalQ(jointType, useEuler))
        /\ lastFit'.op = "setQToFitTranslation" =>
            u' = u /\ OnlySlots(q, q', TranslationalQ(jointType, useEuler))
        /\ lastFit'.op = "setUToFitAngularVelocity" =>
            q' = q /\ OnlySlots(u, u', RotationalU(jointType))
        /\ lastFit'.op = "setUToFitLinearVelocity" =>
            q' = q /\ OnlySlots(u, u', TranslationalU(jointType))
        /\ lastFit'.op \in {"setQToFitRotation", "setQToFitTranslation",
                            "setUToFitAngularVelocity", "setUToFitLinearVelocity"} =>
            /\ \A i \in QSlots : ~IsNaN(q'[i])
            /\ \A i \in USlots : ~IsNaN(u'[i])]_vars
C9_Witness ==
    /\ jointType = "Planar" /\ lastFit.op = "setQToFitTranslation"
    /\ q[0] = 1 /\ q[1] = 1 /\ q[2] = 2 /\ q[3] = 0

\* ---- C10: for every joint class and every transform T in the class's
\* representable manifold, fitting q to T (rotation fit, then translation
\* fit) and evaluating calcAcrossJointTransform on that q gives T back; for
\* BendStretch the manifold is a rotation about z with a stretch of either
\* sign along M's x axis.
ZTurns == {RotZ(k) : k \in 0..3}
InManifold(jt, mv, X) ==
    CASE jt \in {"Ground", "Weld"} -> X = TransformId
      [] jt = "Translate" -> X.R = Mat33Id
      [] jt = "Slider" -> X.R = Mat33Id /\ X.p[2] = 0 /\ X.p[3] = 0
      [] jt = "Torsion" -> X.R \in ZTurns /\ X.p = Vec3Zero
      [] jt = "Cylinder" -> X.R \in ZTurns /\ X.p[1] = 0 /\ X.p[2] = 0
      [] jt = "Planar" -> X.R \in ZTurns /\ X.p[3] = 0
      [] jt = "BendStretch" ->
            /\ X.R \in ZTurns
            /\ \E x \in -3..3 : X.p = MatVec(X.R, <<x, 0, 0>>)
      [] jt = "Universal" ->
            /\ \E a1, a2 \in 0..3 : X.R = MatMul(RotX(a1), RotY(a2))
            /\ X.p = Vec3Zero
      [] jt \in {"Gimbal", "Ball", "LineOrientation"} -> X.p = Vec3Zero
      [] OTHER -> TRUE
C10_FitThenEvaluateReproduces ==
    (/\ lastFit.op = "calcAcrossJointTransform"
     /\ lastFit.fitted
     /\ InManifold(jointType, useEuler, lastFit.T))
        => X_FM = lastFit.T

\* ---- C11: in quaternion mode, on Ball, Ellipsoid, Free, LineOrientation,
\* FreeLine and four-angle Custom nodes, enforceQuaternionConstraints turns a
\* non-unit quaternion in the first four q slots into a unit quaternion that
\* is a positive multiple of it, and leaves the first four slots of a
\* supplied error estimate with zero dot product with that unit quaternion.
\* C11_NormalizesNonzero asks it of the non-unit quaternions other than zero,
\* C11_NormalizesAnyNonUnit of every non-unit quaternion.
EnforceStep == lastFit'.op = "enforceQuaternionConstraints"
NonUnit(e) == IsFinite4(e) /\ Dot4(e, e) # 1
Normalized(e, eAfter, errAfter) ==
    /\ Dot4(eAfter, eAfter) = 1
    /\ Gt0(Norm4(e)) /\ Scale4(eAfter, Norm4(e)) = e
    /\ DOMAIN errAfter # {} => Dot4(Get4(errAfter, 0), eAfter) = 0
C11_NormalizesNonzero ==
    [][(/\ EnforceStep
        /\ isUsingQuaternion(jointType, impl, useEuler)
        /\ NonUnit(Get4(q, 0)) /\ Get4(q, 0) # <<0, 0, 0, 0>>)
            => Normalized(Get4(q, 0), Get4(q', 0), qErrest')]_vars
C11_NormalizesAnyNonUnit ==
    [][(/\ EnforceStep
        /\ isUsingQuaternion(jointType, impl, useEuler)
        /\ NonUnit(Get4(q, 0)))
            => Normalized(Get4(q, 0), Get4(q', 0), qErrest')]_vars
C11_Witness ==
    /\ lastFit.op = "enforceQuaternionConstraints" /\ returned
    /\ jointType = "Custom" /\ ~useEuler
    /\ Get4(q, 0) = <<0, -1, 0, 0>>
    /\ DOMAIN qErrest # {} /\ Get4(qErrest, 0) = <<1, 0, 3, 4>>

\* ---- C12: enforceQuaternionConstraints returns false and leaves q and the
\* error estimate as they were on Ground, on a Weld and on every node under
\* 'use Euler angles'; otherwise it returns true exactly when it changed q or
\* the error estimate, and it changes nothing but the node's first four
\* slots of either vector.
OutsideQuaternion(v, w) == \A i \in DOMAIN v : i >= 4 => w[i] = v[i]
C12_FalseWithoutQuaternion ==
    (jointType \in {"Ground", "Weld"} \/ useEuler)
        => (~returned' /\ q' = q /\ qErrest' = qErrest)
C12_OnlyOwnQuaternionSlots ==
    OutsideQuaternion(q, q') /\ OutsideQuaternion(qErrest, qErrest')
C12_ReturnsWhetherChanged ==
    [][EnforceStep =>
        /\ C12_FalseWithoutQuaternion
        /\ C12_OnlyOwnQuaternionSlots
        /\ returned' <=> (q' # q \/ qErrest' # qErrest)]_vars

\* ---- C13: on Free, FreeLine and four-angle Custom nodes
\* convertToEulerAngles moves the coordinates stored from q offset 4 on down
\* to offset 3 and zeroes the last slot, convertToQuaternions moves them
\* back up, so that converting to Euler angles and back returns every
\* translational coordinate; the quaternion (1,0,0,0) becomes the angles
\* (0,0,0) and these become (1,0,0,0) again.
ShiftingNode == jointType \in {"Free", "FreeLine"} \/ (jointType = "Custom" /\ impl.nAngles = 4)
NQ == IF jointType = "Custom" THEN impl.nq ELSE 7
ThereAndBack(qq) ==
    convertToQuaternions(jointType, impl,
        convertToEulerAngles(jointType, impl, qq, FreshQ), FreshQ)
C13_RoundTripNow ==
    (ShiftingNode /\ ~useEuler) =>
        /\ \A i \in 4..(NQ - 1) : ThereAndBack(q)[i] = q[i]
        /\ Get4(q, 0) = <<1, 0, 0, 0>> => Get4(ThereAndBack(q), 0) = <<1, 0, 0, 0>>
C13_ConversionStep ==
    /\ (ShiftingNode /\ lastFit'.op = "convertToEulerAngles") =>
            /\ \A i \in 3..(NQ - 2) : q'[i] = q[i + 1]
            /\ q'[NQ - 1] = 0
            /\ Get4(q, 0) = <<1, 0, 0, 0>> => Get3(q', 0) = <<0, 0, 0>>
    /\ (ShiftingNode /\ lastFit'.op = "convertToQuaternions") =>
            /\ \A i \in 4..(NQ - 1) : q'[i] = q[i - 1]
            /\ Get3(q, 0) = <<0, 0, 0>> => Get4(q', 0) = <<1, 0, 0, 0>>
C13_ConversionsShiftAndReturn == []C13_RoundTripNow /\ [][C13_ConversionStep]_vars
C13_Witness ==
    /\ jointType = "FreeLine" /\ lastFit.op = "convertToQuaternions" /\ ~useEuler
    /\ Get4(q, 0) = <<1, 0, 0, 0>> /\ Get3(q, 4) = <<5, 6, 7>>

\* ---- C14: a node's joint owns at most 7 q slots and at most 6 u slots, as
\* many u slots as it has mobilities; creating a node advances the counters
\* by the slots it owns, Ground and Weld by none, so that the u counter is
\* the sum of the mobilities; a joint that may hold a quaternion uses maxNQ q
\* slots in quaternion mode, which is more than its mobilities, and maxNQ-1
\* under Euler angles.  C14_SlotCounts lets Ground and Weld (and only them)
\* own no q slot, C14_SlotCountsFromOne asks at least one q slot of every node.
RECURSIVE SumOver(_, _)
SumOver(ns, k) ==
    IF k = 0 THEN [nu |-> 0, nq |-> 0]
    ELSE LET r == SumOver(ns, k - 1)
         IN  [nu |-> r.nu + getNUInUse(ns[k].type, ns[k].impl, useEuler),
              nq |-> r.nq + getMaxNQ(ns[k].type, ns[k].impl)]
MayUseQuaternion(n) == isUsingQuaternion(n.type, n.impl, FALSE)
SlotsOf(n, leastNQ) ==
    /\ getMaxNQ(n.type, n.impl) \in leastNQ..7
    /\ getNUInUse(n.type, n.impl, useEuler) \in 0..6
    /\ getNUInUse(n.type, n.impl, useEuler) = getDOF(n.type, n.impl)
    /\ getNQInUse(n.type, n.impl, useEuler) <= getMaxNQ(n.type, n.impl)
    /\ MayUseQuaternion(n) =>
        /\ getNQInUse(n.type, n.impl, FALSE) = getMaxNQ(n.type, n.impl)
        /\ getNQInUse(n.type, n.impl, TRUE) = getMaxNQ(n.type, n.impl) - 1
        /\ getNQInUse(n.type, n.impl, FALSE) > getDOF(n.type, n.impl)
CountersAreSums ==
    /\ nextUSlot = SumOver(nodes, Len(nodes)).nu
    /\ nextQSlot = SumOver(nodes, Len(nodes)).nq
CreationAdvances ==
    nodes' # nodes =>
        LET n == nodes'[Len(nodes')]
        IN  /\ nextUSlot' = nextUSlot + getNUInUse(n.type, n.impl, useEuler)
            /\ nextQSlot' = nextQSlot + getMaxNQ(n.type, n.impl)
            /\ n.type \in {"Ground", "Weld"} =>
                    (nextUSlot' = nextUSlot /\ nextQSlot' = nextQSlot)
            /\ n.type \notin {"Ground", "Weld"} =>
                    (n.uIndex = nextUSlot /\ n.qIndex = nextQSlot)
C14_SlotCounts ==
    /\ [](CountersAreSums /\ \A k \in DOMAIN nodes :
            SlotsOf(nodes[k], IF nodes[k].type \in {"Ground", "Weld"} THEN 0 ELSE 1))
    /\ [][CreationAdvances]_vars
C14_SlotCountsFromOne ==
    /\ [](CountersAreSums /\ \A k \in DOMAIN nodes : SlotsOf(nodes[k], 1))
    /\ [][CreationAdvances]_vars
C14_Witness ==
    /\ Len(nodes) = 3 /\ ~useEuler
    /\ nodes[2].type = "Weld" /\ nodes[3].type = "Free"
    /\ nextUSlot = 6 /\ nextQSlot = 7

\* ---- C18: createRigidBodyNode of a Custom mobilizer creates a node with
\* exactly NU mobilities when the implementation reports NU in 1..6, a node
\* that may hold a quaternion exactly when four angle slots are reported; for
\* any other NU an assertion failure halts the program, no node is created
\* and the slot counters stay where they were.
CustomCreated ==
    /\ created'.result = "node" /\ ~halted'
    /\ nodes' = Append(nodes, nodes'[Len(nodes')])
    /\ LET n == nodes'[Len(nodes')]
       IN  /\ n.type = "Custom" /\ n.impl = created'.impl
           /\ getDOF(n.type, n.impl) = created'.impl.nu
           /\ getNUInUse(n.type, n.impl, useEuler) = created'.impl.nu
           /\ nextUSlot' = nextUSlot + created'.impl.nu
           /\ MayUseQuaternion(n) <=> created'.impl.nAngles = 4
NothingCreated ==
    /\ created'.result # "node"
    /\ nodes' = nodes /\ nextUSlot' = nextUSlot /\ nextQSlot' = nextQSlot
C18_CustomNodeOrAssertion ==
    [][created'.type = "Custom" =>
        IF created'.impl.nu \in 1..6 THEN CustomCreated
        ELSE halted' /\ NothingCreated]_vars

\* ---- C15: calcAcrossJointVelocityJacobian assigns every one of the ndof
\* columns of H, with the axes the joint declares (Torsion: rotation about z;
\* Screw: rotation about z with translation pitch along z; Free: the three
\* unit rotations, then the three unit translations); and where H is
\* constant in F, calcAcrossJointVelocityJacobianDot assigns zero to every
\* one of the ndof columns, whatever q and u are.
ConstantH == {"Translate", "Slider", "Torsion", "Screw", "Cylinder", "Planar",
              "Gimbal", "Ball", "Free"}
Assigned(col) == VIsFinite(col[1]) /\ VIsFinite(col[2])
NDof == getDOF(jointType, impl)
C15_JacobianStep ==
    /\ lastFit'.op = "calcAcrossJointVelocityJacobian" =>
        /\ NDof > 0 /\ DOMAIN H_FM' = 1..NDof
        /\ \A i \in 1..NDof : Assigned(H_FM'[i])
        /\ jointType = "Torsion" => H_FM' = <<SpatialVec(<<0, 0, 1>>, <<0, 0, 0>>)>>
        /\ jointType = "Screw" => H_FM' = <<SpatialVec(<<0, 0, 1>>, <<0, 0, geom.pitch>>)>>
        /\ jointType = "Free" =>
            H_FM' = <<SpatialVec(<<1, 0, 0>>, <<0, 0, 0>>), SpatialVec(<<0, 1, 0>>, <<0, 0, 0>>),
                      SpatialVec(<<0, 0, 1>>, <<0, 0, 0>>), SpatialVec(<<0, 0, 0>>, <<1, 0, 0>>),
                      SpatialVec(<<0, 0, 0>>, <<0, 1, 0>>), SpatialVec(<<0, 0, 0>>, <<0, 0, 1>>)>>
    /\ (lastFit'.op = "calcAcrossJointVelocityJacobianDot" /\ jointType \in ConstantH) =>
        /\ DOMAIN HDot_FM' = 1..NDof
        /\ \A i \in 1..NDof : HDot_FM'[i] = SpatialZero
C15_AllColumnsAssigned == [][C15_JacobianStep]_vars
C15_Witness ==
    /\ jointType = "Free" /\ lastFit.op = "calcAcrossJointVelocityJacobianDot"
    /\ u[3] # 0 /\ q[4] # 0
    /\ H_FM[4] = SpatialVec(<<0, 0, 0>>, <<1, 0, 0>>)
    /\ \A i \in 1..6 : HDot_FM[i] = SpatialZero

\* ---- C16: on Translate, Slider, Torsion, Screw and Cylinder the H of the
\* reversed mobilizer is, column for column and whatever q is, the negation
\* of the H of calcAcrossJointVelocityJacobian, and its time derivative is
\* zero in every column.
ForwardH ==
    calcAcrossJointVelocityJacobian(jointType, geom, impl, X_FM, Uninitialized(NDof))
C16_ReverseStep ==
    /\ lastFit'.op = "calcReverseMobilizerH_FM" =>
        /\ jointType \in SimpleMobilizers
        /\ DOMAIN H_FM' = 1..NDof
        /\ \A i \in 1..NDof : H_FM'[i] = SNeg(ForwardH[i])
    /\ lastFit'.op = "calcReverseMobilizerHDot_FM" =>
        /\ DOMAIN HDot_FM' = 1..NDof
        /\ \A i \in 1..NDof : HDot_FM'[i] = SpatialZero
C16_ReverseIsNegation == [][C16_ReverseStep]_vars
C16_Witness ==
    /\ jointType = "Screw" /\ geom.pitch = 2 /\ q[0] # 0
    /\ lastFit.op = "calcReverseMobilizerH_FM"
    /\ H_FM = <<SpatialVec(<<0, 0, -1>>, <<0, 0, -2>>)>>

\* ---- C17: calcAcrossJointTransform of an Ellipsoid with semi-axes
\* (rx, ry, rz) puts M's origin at (rx*nx, ry*ny, rz*nz), n being M's z axis
\* in F; at the identity orientation the rotation is the identity and the
\* origin is (0, 0, rz), which is (0, 0, 1) for semi-axes (1, 1, 1).
IdentityOrientation ==
    IF useEuler THEN Get3(q, 0) = <<0, 0, 0>>
    ELSE \E k \in 1..2 : Get4(q, 0) = <<k, 0, 0, 0>>
C17_EllipsoidStep ==
    (lastFit'.op = "calcAcrossJointTransform" /\ jointType = "Ellipsoid") =>
        LET n == MatCol(X_FM'.R, 3)
        IN  /\ X_FM'.R = RotationOfQ(useEuler, q)
            /\ X_FM'.p = <<geom.semi[1] * n[1], geom.semi[2] * n[2], geom.semi[3] * n[3]>>
            /\ IdentityOrientation =>
                /\ X_FM' = Transform(Mat33Id, <<0, 0, geom.semi[3]>>)
                /\ geom.semi = <<1, 1, 1>> => X_FM'.p = <<0, 0, 1>>
C17_EllipsoidOrigin == [][C17_EllipsoidStep]_vars
C17_Witness ==
    /\ jointType = "Ellipsoid" /\ geom.semi = <<2, 3, 4>>
    /\ lastFit.op = "calcAcrossJointTransform" /\ IdentityOrientation
    /\ X_FM = Transform(Mat33Id, <<0, 0, 4>>)

\* The stage the operator called in this step is said to require.
StageCheckedOps ==
    {"calcLocalQDotFromLocalU", "calcQDot", "calcLocalQDotDotFromLocalUDot",
     "calcQDotDot", "multiplyByN", "multiplyByNInv"}
SaidStage(op) ==
    CASE op \in {"calcLocalQDotFromLocalU", "calcQDot", "multiplyByNInv"} -> StagePosition
      [] op \in {"calcLocalQDotDotFromLocalUDot", "calcQDotDot"} -> StageVelocity
      [] op = "multiplyByN" -> StageModel
BelowSaidStage ==
    /\ call'.op \in StageCheckedOps
    /\ jointType \in {"Gimbal"} \cup QuaternionCapable
    /\ sbStage < SaidStage(call'.op)

\* C19: a call of calcLocalQDotFromLocalU or calcQDot (Gimbal, Ball) on a state
\* below Position, of calcLocalQDotDotFromLocalUDot or calcQDotDot below
\* Velocity, of multiplyByN below Model or of multiplyByNInv below Position
\* (quaternion-capable joints) halts the program with a failed assertion and
\* leaves the output array unwritten.
C19_RejectsBelowStage ==
    [][BelowSaidStage => (halted' /\ outBuf' = FreshQ)]_vars

\* Where the three translational entries sit: among the speeds, and among the
\* coordinates.
TransU == IF jointType = "Free" THEN 3 ELSE 2
TransQ == IF useEuler THEN 3 ELSE 4
Translating == jointType \in {"Free", "FreeLine"}
\* multiplyByN takes speeds to coordinates, or a row over the coordinates to a
\* row over the speeds for matrixOnRight; multiplyByNInv the other way round.
TranslationalBlockIsIdentity ==
    /\ (Translating /\ call'.op = "multiplyByN" /\ ~halted') =>
            IF call'.matrixOnRight
            THEN GetN(outBuf', TransU, 3) = GetN(call'.in, TransQ, 3)
            ELSE GetN(outBuf', TransQ, 3) = GetN(call'.in, TransU, 3)
    /\ (Translating /\ call'.op = "multiplyByNInv" /\ ~halted') =>
            IF call'.matrixOnRight
            THEN GetN(outBuf', TransQ, 3) = GetN(call'.in, TransU, 3)
            ELSE GetN(outBuf', TransU, 3) = GetN(call'.in, TransQ, 3)
\* multiplyByNInv applied to what multiplyByN wrote, same matrixOnRight.
ThereAndBackByN ==
    /\ call.op = "multiplyByN" /\ call'.op = "multiplyByNInv" /\ call'.chained
    /\ call'.matrixOnRight = call.matrixOnRight /\ ~halted'
TranslationComesBack ==
    (Translating /\ ThereAndBackByN) =>
        IF call.matrixOnRight
        THEN GetN(outBuf', TransQ, 3) = GetN(call.in, TransQ, 3)
        ELSE GetN(outBuf', TransU, 3) = GetN(call.in, TransU, 3)
GroundWritesNothing ==
    (jointType \in {"Ground", "Weld"}
     /\ call'.op \in {"multiplyByN", "multiplyByNInv", "multiplyByNDot"}) =>
        (outBuf' = FreshQ /\ ~halted')

\* C20: for Free and FreeLine, in both modes and for both matrixOnRight
\* settings, multiplyByN and multiplyByNInv copy the three translational entries
\* unchanged between the speeds' offset (3 for Free, 2 for FreeLine) and the
\* coordinates' offset (3 with Euler angles, 4 with a quaternion), so that
\* multiplyByNInv applied to the output of multiplyByN gives the translational
\* entries back; Ground's and Weld's multiplyByN, multiplyByNInv and
\* multiplyByNDot write nothing.
C20_TranslationalIdentity ==
    [][TranslationalBlockIsIdentity /\ TranslationComesBack /\ GroundWritesNothing]_vars
\* A FreeLine with a quaternion whose three translational speeds 3, 4, 5 went
\* to q offset 4 and came back at u offset 2.
C20_Witness ==
    /\ jointType = "FreeLine" /\ ~useEuler
    /\ call.op = "multiplyByNInv" /\ call.chained /\ ~call.matrixOnRight
    /\ GetN(call.in, 4, 3) = <<3, 4, 5>>
    /\ GetN(outBuf, 2, 3) = <<3, 4, 5>>

\* ---- C21: in the equivalent-joint-force recursion every node k, a Weld
\* included, writes its own allZ[k] = its applied body force plus each
\* child's accumulated force shifted inward by the child's Phi, and writes
\* no other node's entry; only Ground writes allZ[0].
EquivalentZ(n) ==
    SVAccumulate(bodyForces[n], Children(n),
        [c \in Children(n) |-> PhiVec(positionCache[c].Phi, allZ[c])])
EquivalentJointForceStep(n) ==
    /\ pass = "ejf" /\ seq' = Append(seq, n)
WeldWritesOwnZ(n) ==
    /\ allZ'[n] = EquivalentZ(n)
    /\ \A m \in Nodes \ {n} : allZ'[m] = allZ[m]
    /\ <<"allZ", n>> \in written'
C21_EveryNodeWritesOwnZ ==
    [][\A n \in Welds : EquivalentJointForceStep(n) => WeldWritesOwnZ(n)]_vars

\* ---- C22: for Ground and for every Weld, in every state, gyroscopic force,
\* Coriolis acceleration, total Coriolis acceleration, centrifugal forces and
\* total centrifugal forces are exactly zero, also when the Weld's parent
\* moves.
VelocityDependentTerms(e) ==
    << e.gyroscopicForce, e.coriolisAcceleration, e.totalCoriolisAcceleration,
       e.centrifugalForces, e.totalCentrifugalForces >>
AllZeroTerms == << SpatialZero, SpatialZero, SpatialZero, SpatialZero, SpatialZero >>
DynamicsRealizedFor(n) == <<"gyroscopicForce", n>> \in written
C22_WeldTermsAlwaysZero ==
    /\ VelocityDependentTerms(dynamicsCache[0]) = AllZeroTerms
    /\ \A n \in Welds :
        DynamicsRealizedFor(n) => VelocityDependentTerms(dynamicsCache[n]) = AllZeroTerms

\* ---- C22 as the code has it: Ground's five terms are zero in every state.
\* A Weld sets only its across-joint velocities V_FM, V_PB_G and VD_PB_G to
\* zero; it turns with its parent, so its gyroscopic force is
\* (w x I w, m w x (w x c)) and its Coriolis acceleration (0, w x (w x p_PB_G))
\* for the parent's angular velocity w, and the five terms are zero when the
\* parent is at rest with zero total Coriolis acceleration and the Weld's P
\* has been assembled.
WeldDynamicsStep(n) == pass = "dynamics" /\ seq' = Append(seq, n)
TurningWithParent(n) ==
    LET w == velocityCache[parent[n]].V_GB[1]
        e == dynamicsCache'[n]
    IN  /\ velocityCache[n].V_FM = SpatialZero
        /\ velocityCache[n].V_PB_G = SpatialZero
        /\ velocityCache[n].V_GB[1] = w
        /\ e.VD_PB_G = SpatialZero
        /\ e.gyroscopicForce =
                SpatialVec(Cross(w, MatVec(positionCache[n].Inertia_OB_G, w)),
                           VScale(NodeMass(n),
                                  Cross(w, Cross(w, positionCache[n].CB_G))))
        /\ e.coriolisAcceleration =
                SpatialVec(Vec3Zero, Cross(w, Cross(w, positionCache[n].Phi)))
ParentAtRest(n) ==
    /\ velocityCache[parent[n]].V_GB = SpatialZero
    /\ dynamicsCache[parent[n]].totalCoriolisAcceleration = SpatialZero
    /\ <<"P", n>> \in written
C22_WeldTurnsWithParent ==
    [][/\ VelocityDependentTerms(dynamicsCache'[0]) = AllZeroTerms
       /\ \A n \in Welds : WeldDynamicsStep(n) =>
            /\ TurningWithParent(n)
            /\ ParentAtRest(n) =>
                    VelocityDependentTerms(dynamicsCache'[n]) = AllZeroTerms]_vars
C22_Witness ==
    \E n \in Welds :
        /\ DynamicsRealizedFor(n) /\ "abi" \in realized /\ badReads = {}
        /\ parent[n] \in mobilized
        /\ velocityCache[parent[n]].V_GB[1] = <<0, 1, 0>>
        /\ dynamicsCache[n].gyroscopicForce \notin {SpatialZero, SpatialNaN}
        /\ dynamicsCache[n].coriolisAcceleration \notin {SpatialZero, SpatialNaN}
        /\ \A i \in 1..2, j \in 1..3 :
                ~IsNaN(dynamicsCache[n].totalCentrifugalForces[i][j])
        /\ dynamicsCache[n].totalCentrifugalForces # SpatialZero

\* ---- C23: in a Dynamics-stage realization in the order velocity-dependent
\* terms for all nodes base to tip, then articulated-body inertias tip to
\* base, no node reads a Dynamics-cache entry before it was written; a node's
\* centrifugal forces are computed only after its P has been assembled.
VelocityTermsFirst == pass = "dynamics" /\ "abi" \notin realized
C23_VelocityTermsThenInertias ==
    (VelocityTermsFirst /\ InOrder(pass, seq)) =>
        /\ badReads = {}
        /\ \A n \in Range(seq) \ {0} : <<"P", n>> \in written

\* ---- C23 as the code has it: every node but Ground reads its own P while
\* it computes its velocity-dependent terms, so the inertias have to be
\* assembled first.  After the inertia pass, base to tip, the
\* velocity-dependent terms read written entries only; before it, each
\* node's step reads its unassembled P.
DynamicsReadUnwritten(sq) ==
    (IF "abi" \in realized THEN {}
     ELSE {<<"P", sq[i]>> : i \in {j \in 1..Len(sq) : sq[j] # 0}})
    \cup {<<"totalCoriolisAcceleration", parent[sq[i]]>> :
            i \in {j \in 1..Len(sq) :
                    sq[j] # 0 /\ parent[sq[j]] \notin Before(sq, j) \cup {0}}}
C23_InertiasThenVelocityTerms ==
    pass = "dynamics" =>
        /\ badReads = DynamicsReadUnwritten(seq)
        /\ ("abi" \in realized /\ InOrder(pass, seq)) =>
                /\ badReads = {}
                /\ \A n \in Range(seq) \ {0} : <<"P", n>> \in written
        /\ (VelocityTermsFirst /\ Range(seq) \ {0} # {}) => badReads # {}
C23_Witness ==
    /\ pass = "dynamics" /\ "abi" \in realized
    /\ Range(seq) = Nodes /\ InOrder(pass, seq) /\ badReads = {}
    /\ \E n \in Welds :
        /\ Children(n) # {}
        /\ dynamicsCache[n].P \notin {SpatialMatNaN, positionCache[n].Mk}
        /\ dynamicsCache[n].totalCentrifugalForces = SpatialZero

\* ---- C24: forward-dynamics pass 1 accumulates bias minus applied: a
\* Weld's z is its centrifugal forces minus its applied body force plus, for
\* each child once, Phi_child (z_child + Geps_child), and its Geps is zero,
\* so a force applied to any body under a Weld appears shifted in the z of
\* the Weld's parent; Ground's z is minus Ground's applied body force and its
\* Geps is zero.
RECURSIVE IsUnder(_, _)
IsUnder(d, n) == d = n \/ (d # 0 /\ IsUnder(parent[d], n))
Subtree(n) == {d \in Nodes : IsUnder(d, n)}
\* The force applied at d's origin, as a spatial force at n's origin.
ShiftedTo(n, d) ==
    PhiVec(VSub(positionCache[d].X_GB.p, positionCache[n].X_GB.p), bodyForces[d])
AppliedUnder(n) ==
    SVAccumulate(SpatialZero, Subtree(n), [d \in Subtree(n) |-> ShiftedTo(n, d)])
C24_BiasMinusApplied ==
    (pass = "udot1" /\ InOrder(pass, seq)) =>
        \A n \in Range(seq) :
            /\ allGepsilon[n] = SpatialZero
            /\ n = 0 => allZ[n] = SNeg(bodyForces[0])
            /\ n # 0 =>
                /\ allZ[n] = ChildrenZ(n, SSub(dynamicsCache[n].centrifugalForces,
                                               bodyForces[n]))
                /\ allZ[n] = SSub(dynamicsCache[n].centrifugalForces, AppliedUnder(n))
C24_Witness ==
    /\ pass = "udot1" /\ InOrder(pass, seq) /\ Range(seq) = Nodes
    /\ badReads = {}
    /\ parent[2] = 1
    /\ allZ[1] = SNeg(AppliedUnder(1))
    /\ allZ[1] # SNeg(bodyForces[1])
    /\ allZ[0] = SNeg(bodyForces[0])

\* ---- C25: in the outward passes Ground's spatial acceleration is zero and
\* a Weld's is its parent's shifted outward by the transpose of the Weld's
\* Phi (zero, unread, when the parent is Ground), plus the Weld's Coriolis
\* acceleration in forward dynamics and nothing more in the M^-1 f and M a
\* passes; in a tree of Ground and Welds every spatial acceleration is zero.
AccelerationPasses == {"udot2", "minvf2", "ma1"}
ShiftedParentA(n) ==
    IF parent[n] = 0 THEN SpatialZero
    ELSE SpatialVec(allA_GB[parent[n]][1],
                    VAdd(allA_GB[parent[n]][2],
                         Cross(allA_GB[parent[n]][1], positionCache[n].Phi)))
PhiAsMatrix(l) == SpatialMat(Mat33Id, crossMat(l), MatScale(0, Mat33Id), Mat33Id)
ChildInertia(c) ==
    SMPhiT(PhiSM(positionCache[c].Phi,
                 SMMul(dynamicsCache[c].TauBar, dynamicsCache[c].P)),
           positionCache[c].Phi)
\* The spatial inertia of body d about n's origin.
InertiaShiftedTo(n, d) ==
    LET l == VSub(positionCache[d].X_GB.p, positionCache[n].X_GB.p)
    IN  SMPhiT(PhiSM(l, positionCache[d].Mk), l)
CompositeInertia(n) ==
    SMAccumulate(positionCache[n].Mk, Subtree(n) \ {n},
                 [d \in Subtree(n) \ {n} |-> InertiaShiftedTo(n, d)])
C26_WeldInertiaAssembly ==
    pass = "abi" =>
        /\ dynamicsCache[0] = AllocatedDynamics(0)
        /\ Own(0, Produced("abi")) \cap written = {}
        /\ InOrder(pass, seq) =>
            \A n \in Range(seq) \ {0} :
                /\ dynamicsCache[n].P =
                        SMAccumulate(positionCache[n].Mk, Children(n),
                                     [c \in Children(n) |-> ChildInertia(c)])
                /\ dynamicsCache[n].P = CompositeInertia(n)
                /\ dynamicsCache[n].TauBar = SpatialMatId
                /\ dynamicsCache[n].Psi = PhiAsMatrix(positionCache[n].Phi)
                /\ Children(n) = {} => dynamicsCache[n].P = positionCache[n].Mk
C26_Witness ==
    /\ pass = "abi" /\ InOrder(pass, seq) /\ Range(seq) = Nodes
    /\ parent[2] = 1
    /\ dynamicsCache[2].P = positionCache[2].Mk
    /\ dynamicsCache[1].P = CompositeInertia(1)
    /\ dynamicsCache[1].P # positionCache[1].Mk
    /\ dynamicsCache[0].P = SpatialMatNaN

\* ---- C27: for every joint class convertToEulerAngles and
\* convertToQuaternions write only q slots of the node's own range, local
\* offsets 0..maxNQ-1: the slots of the output vector beyond them, which
\* belong to the node that follows, are left as they were.  For a
\* LineOrientation node (maxNQ = 4) local offsets 4..6 are not written.
Converted == lastFit'.op \in {"convertToEulerAngles", "convertToQuaternions"}
BeyondOwnSlots == {i \in QSlots : i >= getMaxNQ(jointType, impl)}
C27_ConversionsStayInOwnSlots ==
    [][Converted => \A i \in BeyondOwnSlots : q'[i] = FreshQ[i]]_vars

\* ---- C29: every default setter that succeeds (setDefaultGravityVector,
\* setDefaultDownDirection, setDefaultMagnitude, setDefaultZeroHeight,
\* setDefaultBodyIsExcluded) invalidates the topology cache: afterwards no
\* State is realized to Stage::Topology or beyond, so none holds instance
\* variables made from the defaults of before.
DefaultSetters ==
    {"setDefaultGravityVector", "setDefaultDownDirection", "setDefaultMagnitude",
     "setDefaultZeroHeight", "setDefaultBodyIsExcluded"}
Defaults == << defDirection, defMagnitude, defZeroHeight, defMobodIsImmune >>
DefaultSetterSucceeded ==
    lastOp'.op \in DefaultSetters /\ lastOp'.ok /\ Defaults' # Defaults
C29_DefaultSettersInvalidate ==
    [][DefaultSetterSucceeded => \A s \in States : stage'[s] = StageEmpty]_vars

\* ---- C28: once realizeInstance has run, a State whose gravity magnitude is
\* zero holds zero body forces, particle forces and potential energy, every
\* query returns zero and none increments the evaluation counter; with a
\* nonzero magnitude every immune body's force is zero and the potential
\* energy of a valid cache is the sum over the bodies that are not immune
\* only, whatever flags setBodyIsExcluded set.
RECURSIVE PotentialEnergyOf(_, _, _)
PotentialEnergyOf(bodies, iv, X) ==
    IF bodies = {} THEN 0
    ELSE LET b == CHOOSE x \in bodies : TRUE
             p_G_CB == VAdd(X[b].p, MatVec(X[b].R, BodyMassCenter(b)))
             height == Add(Dot(VScale(iv.g, iv.d), p_G_CB), Mul(iv.g, iv.z))
         IN  Sub(PotentialEnergyOf(bodies \ {b}, iv, X), Mul(BodyMass(b), height))
Affected(iv) == {b \in 1..(NumBodies - 1) : ~iv.mobodIsImmune[b]}
InstanceRealized(s) == adopted /\ stage[s] >= StageInstance
ZeroGravityIsZero ==
    \A s \in States : (InstanceRealized(s) /\ instanceVars[s].g = 0) =>
        /\ forceCache[s] = setToZero(forceCache[s])
        /\ DOMAIN forceCache[s].F_GB = 0..(NumBodies - 1)
ImmuneBodiesFeelNothing ==
    \A s \in States : (InstanceRealized(s) /\ instanceVars[s].g # 0) =>
        /\ \A b \in 0..(NumBodies - 1) :
                instanceVars[s].mobodIsImmune[b] => forceCache[s].F_GB[b] = SpatialZero
        /\ cacheValid[s] =>
                forceCache[s].pe =
                    PotentialEnergyOf(Affected(instanceVars[s]), instanceVars[s],
                                      bodyTransform[s])
QueriedWithoutGravity ==
    \A s \in States : (lastOp'.op \in QueryOps /\ instanceVars[s].g = 0) =>
        /\ lastOp'.ret = SpatialZero
        /\ numEvaluations' = numEvaluations
QueriedImmuneBody ==
    \A s \in States :
        (lastOp'.op = "getBodyForce" /\ instanceVars[s].mobodIsImmune[lastOp'.real]) =>
            lastOp'.ret = SpatialZero
C28_ZeroGravityAndImmunity ==
    /\ [](ZeroGravityIsZero /\ ImmuneBodiesFeelNothing)
    /\ [][QueriedWithoutGravity /\ QueriedImmuneBody]_vars
C28_Witness ==
    /\ lastOp.op = "getBodyForce" /\ lastOp.real = 1 /\ lastOp.vec[1] = 0
    /\ instanceVars[1].g = 2 /\ instanceVars[1].mobodIsImmune[1]
    /\ cacheValid[1] /\ numEvaluations = 2
    /\ forceCache[1].pe = 0
    /\ bodyTransform[1][1] # TransformId

\* ---- C30: each realize call of a Custom node invokes the implementation's
\* realize method of that stage exactly once and the built-in realization
\* exactly once: the implementation first at the Position and Velocity
\* stages, where the built-in realization then finds the implementation
\* realized, and the built-in realization first at the Model, Instance, Time,
\* Dynamics, Acceleration and Report stages.
RealizeStep(g) == sbStage = g - 1 /\ sbStage' = g
CallsBy(log, who, g) == {i \in 1..Len(log) : log[i].by = who /\ log[i].stage = g}
ImplementationFirstStages == {StagePosition, StageVelocity}
C30_ImplementationRealizedInOrder ==
    [][\A g \in CustomStages : RealizeStep(g) =>
        /\ Len(realizeLog') = 2
        /\ Cardinality(CallsBy(realizeLog', "impl", g)) = 1
        /\ Cardinality(CallsBy(realizeLog', "node", g)) = 1
        /\ (realizeLog'[1].by = "impl") = (g \in ImplementationFirstStages)
        /\ g \in ImplementationFirstStages =>
                \A i \in CallsBy(realizeLog', "node", g) : realizeLog'[i].implReady
        /\ implStage' = g]_vars
C30_Witness ==
    /\ jointType = "Custom" /\ impl.nAngles = 4
    /\ sbStage = StageReport /\ implStage = StageReport
    /\ realizeLog = << BuiltInRealize(StageReport, StageAcceleration),
                       ImplRealize(StageReport) >>

====
